---------------------------- MODULE Spec2Model ----------------------------
(***************************************************************************)
(* midi_lattice: the voice registry kept by the audio callback, its        *)
(* publication to the editor through a triple buffer, and the fixed-point  *)
(* pitch-class arithmetic (src/src/lib.rs, src/src/midi.rs,                *)
(* src/src/tuning.rs, src/src/editor/...).                                 *)
(*                                                                         *)
(* Four specifications share the definitions below:                        *)
(*   Spec        process() on the audio thread against the editor's reads  *)
(*               of the triple buffer (producer and consumers interleave); *)
(*   SpecBatch   process() alone (editor closed), batch by batch;          *)
(*   SpecVoices  update_midi_voices called event by event;                 *)
(*   SpecArith   the PitchClass operations applied to sampled operands.    *)
(***************************************************************************)
EXTENDS Integers, Sequences, FiniteSets, TLC

VARIABLES
    \* MidiLattice (lib.rs:21-27) and the locals of process() (lib.rs:290-318)
    voices,          \* self.voices: the live registry
    ppc,             \* where the audio thread is inside process()
    event_counter,   \* the local event_counter of process()
    pending,         \* how many events context.next_event() still holds
    event,           \* the event handed to the latest update_midi_voices call
    report,          \* what that call logged through nih_error! / nih_log!
    \* the triple buffer shared by voices_input and voices_output
    buffers,         \* the three buffers
    back_info,       \* the shared atomic: index of the back buffer and dirty bit
    input_idx,       \* Input's private buffer index
    output_idx,      \* Output's private buffer index
    wpos,            \* how far the assignment into the input buffer has got
    \* the editor's call sites that lock voices_output
    lock,            \* the Mutex around Output: 0 when free, else the holder
    cpc,             \* where each call site is
    cpos,            \* how far each call site's iteration over the buffer has got
    got,             \* what each call site has collected so far in this call
    \* history variables
    pubCount,        \* number of publishes finished so far
    published,       \* per buffer: the registry as it stood when last published
    bufVer,          \* per buffer: the number of the publish that handed it over
    startVer,        \* per call site: number of publishes finished when it began
    gotVer,          \* the publish number of the snapshot the latest read returned
    batchStart,      \* the registry when the current process() call began
    consumed,        \* the events next_event() has handed out in this call
    shadow,          \* the registry of the run without the marked key's events
    phase,           \* the marked NoteOn/NoteOff bracket: "idle", "open", "closed"
    marked,          \* the key of the bracket
    fullSeen,        \* whether a NoteOn was refused for capacity inside the bracket
    \* operands and result of the PitchClass operations
    pa, pb, pr, pop,
    pn,              \* the multiplier of the latest multiply(), else 0
    \* the latest call of a pure function of tuning.rs or grid.rs: its name,
    \* its arguments and what it returned
    fop, fin, fout,
    \* a learn pass of the tuning learn button
    pitch_classes,   \* its local Vec<PitchClass>
    emitted,         \* the parameter events it has emitted so far
    \* the lattice's AnimationInfo
    recent_pitch_classes,  \* HashMap<PitchClass, Duration>: time left
    drawHist         \* history: the latest draw tick and the time since each
                     \* pitch class last sounded

vars == <<voices, ppc, event_counter, pending, event, report,
          buffers, back_info, input_idx, output_idx, wpos,
          lock, cpc, cpos, got,
          pubCount, published, bufVer, startVer, gotVer,
          batchStart, consumed, shadow, phase, marked, fullSeen,
          pa, pb, pn, pr, pop, fop, fin, fout, pitch_classes, emitted,
          recent_pitch_classes, drawHist>>

progVars == <<voices, ppc, event_counter, pending, event, report>>
bufVars  == <<buffers, back_info, input_idx, output_idx, wpos>>
consVars == <<lock, cpc, cpos, got>>
chanHist == <<pubCount, published, bufVer, startVer, gotVer>>
batchHist == <<batchStart, consumed>>
bracketHist == <<shadow, phase, marked, fullSeen>>
arithVars == <<pa, pb, pn, pr, pop>>
fnVars == <<fop, fin, fout>>
learnVars == <<pitch_classes, emitted>>
highlightVars == <<recent_pitch_classes, drawHist>>

None == <<>>
Some(x) == <<x>>

--------------------------------------------------------------------------
(* tuning.rs: PitchClass, a u32 count of microcents.                       *)
(* TLC's integers are 32-bit signed, so a u32 sum is evaluated below        *)
(* without ever forming a number above 2^31 - 1; no u32 operation of        *)
(* tuning.rs on values <= OCTAVE_MICROCENTS reaches 2^32.                   *)

CENTS_TO_MICROCENTS == 1000000
MIDI_NOTE_TO_CENTS == 100
OCTAVE_MICROCENTS == 1200 * CENTS_TO_MICROCENTS

\* (x + y) % OCTAVE_MICROCENTS for 0 <= x, y <= OCTAVE_MICROCENTS
AddModOctave(x, y) ==
    IF x >= OCTAVE_MICROCENTS - y
        THEN (x - (OCTAVE_MICROCENTS - y)) % OCTAVE_MICROCENTS
        ELSE (x + y) % OCTAVE_MICROCENTS

from_microcents(microcents) == microcents % OCTAVE_MICROCENTS

from_midi_note(note) == (note % 12) * MIDI_NOTE_TO_CENTS * CENTS_TO_MICROCENTS

\* impl Add: PitchClass((self.0 + rhs.0) % OCTAVE_MICROCENTS)
PcAdd(self, rhs) == AddModOctave(self, rhs)

\* impl Neg: PitchClass(OCTAVE_MICROCENTS - self.0)
PcNeg(self) == OCTAVE_MICROCENTS - self

\* impl Sub: self + -other
PcSub(self, other) == PcAdd(self, PcNeg(other))

\* (n * p) % OCTAVE_MICROCENTS for n >= 0, sixteen-fold digit by digit: the
\* u64 product of multiply() cannot overflow for n < 2^31 and
\* p <= OCTAVE_MICROCENTS, and no intermediate value here exceeds the octave
Dbl(x) == AddModOctave(x, x)

DigitTimes(d, p) ==
    LET p1 == p % OCTAVE_MICROCENTS
        p2 == Dbl(p1)
        p4 == Dbl(p2)
        p8 == Dbl(p4)
        lo == AddModOctave(IF d % 2 = 1 THEN p1 ELSE 0,
                           IF (d \div 2) % 2 = 1 THEN p2 ELSE 0)
        hi == AddModOctave(IF (d \div 4) % 2 = 1 THEN p4 ELSE 0,
                           IF (d \div 8) % 2 = 1 THEN p8 ELSE 0)
    IN  AddModOctave(lo, hi)

\* (the test h >= 0 is always true: it has h computed before it is used)
RECURSIVE MulModOctave(_, _)
MulModOctave(n, p) ==
    IF n = 0 THEN 0
    ELSE LET h == MulModOctave(n \div 16, p)
         IN  IF h >= 0
                 THEN AddModOctave(Dbl(Dbl(Dbl(Dbl(h)))), DigitTimes(n % 16, p))
                 ELSE 0

I32_MIN == -2147483647 - 1

\* 2^64 % OCTAVE_MICROCENTS
TWO_POW_64_MOD_OCTAVE == 109551616

Builds == { "debug", "release" }

\* whether an intermediate value of multiply() leaves its integer type:
\* -rhs is evaluated in i32 before the cast to u64, and -i32::MIN is not
\* an i32.  (rhs as u64 * u64::from(self.0) stays below 2^31 * 2^32.)
multiply_overflows(self, rhs) == rhs = I32_MIN

\* Without overflow checks -i32::MIN wraps to i32::MIN, the cast to u64
\* sign-extends it to 2^64 - 2^31, and the u64 product with q = (-self).0
\* wraps to 2^64 - 2^31 * q (to 0 for q = 0)
multiply_wrapped(self) ==
    LET q == PcNeg(self)
    IN  IF q = 0 THEN 0
        ELSE LET low == Dbl(MulModOctave(1073741824, q))
             IN  AddModOctave(TWO_POW_64_MOD_OCTAVE,
                              (OCTAVE_MICROCENTS - low) % OCTAVE_MICROCENTS)

multiply(self, rhs) ==
    IF rhs >= 0
        THEN MulModOctave(rhs, self)
        ELSE IF rhs = I32_MIN
            THEN multiply_wrapped(self)
            ELSE MulModOctave(-rhs, PcNeg(self))

Min(x, y) == IF x < y THEN x ELSE y

distance_to_forward(self, other) == PcSub(self, other)

distance_to(self, other) == Min(PcSub(self, other), PcSub(other, self))

\* The f32 nearest to the integer n (ties to even), 0 <= n < 2^31: an f32 has
\* a 24-bit significand
RECURSIVE UlpF32(_)
UlpF32(n) == IF n < 16777216 THEN 1 ELSE 2 * UlpF32(n \div 2)

RoundF32(n) ==
    LET u == UlpF32(n)
        q == n \div u
        r == n % u
    IN  IF 2 * r > u \/ (2 * r = u /\ q % 2 = 1) THEN (q + 1) * u ELSE q * u

\* A tuning offset (f32 semitones) is given in quarter semitones, which f32
\* holds exactly, as do rem_euclid(12.0) and the product by 100.0 of it;
\* the product by 1e6 is rounded to f32, and .round() as u32 keeps it.
QUARTERS_PER_OCTAVE == 48

from_midi_note_offset_f32(quarters) ==
    RoundF32((quarters % QUARTERS_PER_OCTAVE) * 25 * CENTS_TO_MICROCENTS)

--------------------------------------------------------------------------
(* midi.rs and lib.rs: the voice registry.                                 *)

\* type Voices = FnvIndexMap<VoiceKey, MidiVoice, 256>
Capacity == 256

\* The keys followed one by one.  Every other key that is ever pressed is a
\* background key BgKey(0), BgKey(1), ... (channels 2 and 3); background keys
\* are pressed in this order, never retuned and never released, so that the
\* registry holds BgKey(0) .. BgKey(bg - 1), each as its note-on left it.
Keys == { [channel |-> 0, note |-> 60], [channel |-> 15, note |-> 61] }

BG_CHANNEL == 2
NOTES_PER_CHANNEL == 128

BgKey(i) == [channel |-> BG_CHANNEL + (i \div NOTES_PER_CHANNEL),
             note |-> i % NOTES_PER_CHANNEL]
BgIndex(key) == (key.channel - BG_CHANNEL) * NOTES_PER_CHANNEL + key.note

VoiceIds == { None, Some(1) }
Tunings == { 0, 2, -1 }          \* in quarter semitones: 0.0, 0.5, -0.25

\* MidiVoice::new; pitch is kept in quarter semitones
MidiVoice(voice_id, channel, note, pitch, pitch_class) ==
    [voice_id |-> voice_id, channel |-> channel, note |-> note,
     pitch |-> pitch, pitch_class |-> pitch_class]

from_midi_data(voice_id, channel, note) ==
    MidiVoice(voice_id, channel, note, 4 * note, from_midi_note(note))

set_tuning_relative(voice, tuning_offset) ==
    [voice EXCEPT
        !.pitch = voice.pitch + tuning_offset,
        !.pitch_class = PcAdd(voice.pitch_class,
                              from_midi_note_offset_f32(tuning_offset))]

set_tuning(voice, tuning_offset) ==
    [voice EXCEPT
        !.pitch = 4 * voice.note + tuning_offset,
        !.pitch_class = PcAdd(from_midi_note(voice.note),
                              from_midi_note_offset_f32(tuning_offset))]

\* A registry value: the voice (or None) of each followed key, and the
\* number of background keys held
EmptyVoices == [v |-> [k \in Keys |-> None], bg |-> 0]

Held(r) == { k \in Keys : r.v[k] # None }
Size(r) == r.bg + Cardinality(Held(r))
contains_key(r, key) ==
    IF key \in Keys THEN r.v[key] # None ELSE BgIndex(key) < r.bg

\* heapless IndexMap::insert: replaces the value of a key that is present
\* (Ok(Some(old))), refuses a new key when full (Err), else adds it (Ok(None))
insert_unbounded(r, key, value) ==
    IF contains_key(r, key)
        THEN [map |-> IF key \in Keys THEN [r EXCEPT !.v[key] = Some(value)] ELSE r,
              res |-> "OkSome"]
        ELSE [map |-> IF key \in Keys THEN [r EXCEPT !.v[key] = Some(value)]
                                       ELSE [r EXCEPT !.bg = @ + 1],
              res |-> "OkNone"]

insert(r, key, value) ==
    IF contains_key(r, key)
        THEN [map |-> IF key \in Keys THEN [r EXCEPT !.v[key] = Some(value)] ELSE r,
              res |-> "OkSome"]
    ELSE IF Size(r) >= Capacity
        THEN [map |-> r, res |-> "Err"]
        ELSE [map |-> IF key \in Keys THEN [r EXCEPT !.v[key] = Some(value)]
                                       ELSE [r EXCEPT !.bg = @ + 1],
              res |-> "OkNone"]

remove_nothing(r, key) ==
    [map |-> r, res |-> IF contains_key(r, key) THEN "Some" ELSE "None"]

\* IndexMap::remove (of a followed key: background keys are not released)
remove(r, key) ==
    IF contains_key(r, key)
        THEN [map |-> [r EXCEPT !.v[key] = None], res |-> "Some"]
        ELSE [map |-> r, res |-> "None"]

\* NoteEvent<()>: the fields update_midi_voices reads
NoteOn(voice_id, key) ==
    [kind |-> "NoteOn", voice_id |-> voice_id, channel |-> key.channel,
     note |-> key.note, tuning |-> 0]
NoteOff(key) ==
    [kind |-> "NoteOff", voice_id |-> None, channel |-> key.channel,
     note |-> key.note, tuning |-> 0]
PolyTuning(key, tuning) ==
    [kind |-> "PolyTuning", voice_id |-> None, channel |-> key.channel,
     note |-> key.note, tuning |-> tuning]
OtherEvent ==
    [kind |-> "Other", voice_id |-> None, channel |-> 0, note |-> 0, tuning |-> 0]
NoEvent ==
    [kind |-> "none", voice_id |-> None, channel |-> 0, note |-> 0, tuning |-> 0]

VoiceKey(e) == [channel |-> e.channel, note |-> e.note]

\* update_midi_voices with PolyTuning of an absent key creating the voice
update_midi_voices_upsert(r, e) ==
    IF e.kind = "NoteOn" THEN
        LET i == insert(r, VoiceKey(e), from_midi_data(e.voice_id, e.channel, e.note))
        IN  [voices |-> i.map,
             report |-> IF i.res = "OkSome" THEN "note on for existing voice"
                        ELSE IF i.res = "Err" THEN "too many voices"
                        ELSE "none"]
    ELSE IF e.kind = "NoteOff" THEN
        LET d == remove(r, VoiceKey(e))
        IN  [voices |-> d.map,
             report |-> IF d.res = "None" THEN "off for nonexisting voice" ELSE "none"]
    ELSE IF e.kind = "PolyTuning" THEN
        [voices |-> [r EXCEPT !.v[VoiceKey(e)] =
                        Some(set_tuning(from_midi_data(None, e.channel, e.note), e.tuning))],
         report |-> IF contains_key(r, VoiceKey(e)) THEN "none"
                    ELSE "tuning for nonexistent voice"]
    ELSE [voices |-> r, report |-> "none"]

\* update_midi_voices: the new registry and what was logged
update_midi_voices(r, e) ==
    IF e.kind = "NoteOn" THEN
        LET i == insert(r, VoiceKey(e), from_midi_data(e.voice_id, e.channel, e.note))
        IN  [voices |-> i.map,
             report |-> IF i.res = "OkSome" THEN "note on for existing voice"
                        ELSE IF i.res = "Err" THEN "too many voices"
                        ELSE "none"]
    ELSE IF e.kind = "NoteOff" THEN
        LET d == remove(r, VoiceKey(e))
        IN  [voices |-> d.map,
             report |-> IF d.res = "None" THEN "off for nonexisting voice" ELSE "none"]
    ELSE IF e.kind = "PolyTuning" THEN
        IF contains_key(r, VoiceKey(e))
            THEN [voices |-> [r EXCEPT !.v[VoiceKey(e)] =
                                Some(set_tuning(r.v[VoiceKey(e)][1], e.tuning))],
                  report |-> "none"]
            ELSE [voices |-> r, report |-> "tuning for nonexistent voice"]
    ELSE [voices |-> r, report |-> "none"]

\* The events for the followed keys
KeyEvents ==
    { NoteOn(id, k) : id \in VoiceIds, k \in Keys }
    \cup { NoteOff(k) : k \in Keys }
    \cup { PolyTuning(k, t) : k \in Keys, t \in Tunings }
    \cup { OtherEvent }

\* ... and the NoteOn of the next background key, while there is one
VoiceEvents(r) ==
    KeyEvents \cup (IF r.bg < Capacity THEN { NoteOn(None, BgKey(r.bg)) } ELSE {})

--------------------------------------------------------------------------
(* The state after MidiLattice::default() (lib.rs:236-247) and the          *)
(* TripleBuffer it builds: three default (empty) buffers, back buffer 0,    *)
(* input buffer 1, output buffer 2.                                         *)

Sites == { 1, 2 }
BufferIdx == { 0, 1, 2 }
AnyKey == CHOOSE k \in Keys : TRUE

\* no learn pass is running
InitLearn ==
    /\ pitch_classes = << >>
    /\ emitted = << >>

\* the pitch classes a draw tick may meet
HighlightPitchClasses == { 0, 386313714, 700000000 }

\* AnimationInfo { recent_pitch_classes: HashMap::new(), .. }, before the
\* first draw tick
InitHighlight ==
    /\ recent_pitch_classes = << >>
    /\ drawHist = [ticked |-> FALSE, voices |-> << >>,
                   highlight_duration |-> 0, result |-> << >>,
                   prev_result |-> << >>,
                   since |-> [pc \in HighlightPitchClasses |-> None],
                   set_at |-> [pc \in HighlightPitchClasses |-> None]]

InitProgram ==
    /\ InitLearn
    /\ InitHighlight
    /\ voices = EmptyVoices
    /\ ppc = "idle"
    /\ event_counter = 0
    /\ pending = 0
    /\ event = NoEvent
    /\ report = "none"
    /\ buffers = [i \in BufferIdx |-> EmptyVoices]
    /\ back_info = [idx |-> 0, dirty |-> FALSE]
    /\ input_idx = 1
    /\ output_idx = 2
    /\ wpos = {}
    /\ lock = 0
    /\ cpc = [c \in Sites |-> "idle"]
    /\ cpos = [c \in Sites |-> {}]
    /\ got = [c \in Sites |-> EmptyVoices]

InitHistory ==
    /\ pubCount = 0
    /\ published = [i \in BufferIdx |-> EmptyVoices]
    /\ bufVer = [i \in BufferIdx |-> 0]
    /\ startVer = [c \in Sites |-> 0]
    /\ gotVer = 0
    /\ batchStart = EmptyVoices
    /\ consumed = << >>
    /\ shadow = EmptyVoices
    /\ phase = "idle"
    /\ marked = AnyKey
    /\ fullSeen = FALSE

InitFn ==
    /\ fop = "none"
    /\ fin = << >>
    /\ fout = << >>

InitArith ==
    /\ pa = 0
    /\ pb = 0
    /\ pn = 0
    /\ pr = 0
    /\ pop = "none"
    /\ InitFn

--------------------------------------------------------------------------
(* SpecVoices: update_midi_voices (midi.rs:148-210) called event by event.  *)
(* The history variables shadow, phase, marked and fullSeen follow one      *)
(* bracket NoteOn(k) ... NoteOff(k) with only other keys' events inside,    *)
(* and next to it the registry of the run in which the two events of k do   *)
(* not occur.                                                               *)

\* the registry after update_midi_voices has been called on each event of
\* seq in turn
RECURSIVE ApplyAll(_, _)
ApplyAll(r, seq) ==
    IF seq = << >> THEN r
    ELSE ApplyAll(update_midi_voices(r, Head(seq)).voices, Tail(seq))

\* the registry after NoteOn of BgKey(lo), ..., BgKey(hi - 1), one call each
\* (split in halves to keep TLC's evaluation shallow; the test of first.bg,
\* which always holds, only makes TLC finish the first half before it begins
\* the second)
RECURSIVE BackgroundNoteOns(_, _, _)
BackgroundNoteOns(r, lo, hi) ==
    IF lo >= hi THEN r
    ELSE IF hi = lo + 1 THEN update_midi_voices(r, NoteOn(None, BgKey(lo))).voices
    ELSE LET mid == (lo + hi) \div 2
             first == BackgroundNoteOns(r, lo, mid)
         IN  IF first.bg >= 0 THEN BackgroundNoteOns(first, mid, hi) ELSE first

\* How many background keys VoicesFill presses at once
BackgroundFill == 254

\* one call update_midi_voices(&mut self.voices, e)
Update(e) ==
    /\ voices' = update_midi_voices(voices, e).voices
    /\ report' = update_midi_voices(voices, e).report
    /\ event' = e
    /\ UNCHANGED <<ppc, event_counter, pending>>

RefusedForCapacity(r, e) ==
    e.kind = "NoteOn" /\ ~contains_key(r, VoiceKey(e)) /\ Size(r) >= Capacity

notVoices == <<bufVars, consVars, chanHist, batchHist, arithVars, fnVars,
               learnVars, highlightVars>>

VoicesPlain ==
    \E e \in VoiceEvents(voices) :
        /\ phase = "idle"
        /\ voices.bg = 0 => e \in KeyEvents
        /\ Update(e)
        /\ UNCHANGED bracketHist
        /\ UNCHANGED notVoices

\* BackgroundFill calls in a row, NoteOn of BgKey(0), BgKey(1), ...
VoicesFill ==
    /\ phase = "idle"
    /\ voices.bg = 0
    /\ voices' = BackgroundNoteOns(voices, 0, BackgroundFill)
    /\ event' = NoteOn(None, BgKey(BackgroundFill - 1))
    /\ report' = update_midi_voices(
                    BackgroundNoteOns(voices, 0, BackgroundFill - 1),
                    NoteOn(None, BgKey(BackgroundFill - 1))).report
    /\ UNCHANGED <<ppc, event_counter, pending>>
    /\ UNCHANGED bracketHist
    /\ UNCHANGED notVoices

VoicesOpen ==
    \E e \in KeyEvents :
        /\ phase = "idle"
        /\ e.kind = "NoteOn"
        /\ Update(e)
        /\ phase' = "open"
        /\ marked' = VoiceKey(e)
        /\ shadow' = voices
        /\ fullSeen' = FALSE
        /\ UNCHANGED notVoices

VoicesInside ==
    \E e \in VoiceEvents(voices) :
        /\ phase = "open"
        /\ voices.bg = 0 => e \in KeyEvents
        /\ e.kind # "Other" => VoiceKey(e) # marked
        /\ Update(e)
        /\ shadow' = update_midi_voices(shadow, e).voices
        /\ fullSeen' = (fullSeen \/ RefusedForCapacity(voices, e))
        /\ UNCHANGED <<phase, marked>>
        /\ UNCHANGED notVoices

VoicesClose ==
    /\ phase = "open"
    /\ Update(NoteOff(marked))
    /\ phase' = "closed"
    /\ UNCHANGED <<shadow, marked, fullSeen>>
    /\ UNCHANGED notVoices

VoicesForget ==
    /\ phase = "closed"
    /\ phase' = "idle"
    /\ shadow' = EmptyVoices
    /\ marked' = AnyKey
    /\ fullSeen' = FALSE
    /\ UNCHANGED progVars
    /\ UNCHANGED notVoices

NextVoices ==
    \/ VoicesPlain
    \/ VoicesFill
    \/ VoicesOpen
    \/ VoicesInside
    \/ VoicesClose
    \/ VoicesForget

InitVoices == InitProgram /\ InitHistory /\ InitArith

SpecVoices == InitVoices /\ [][NextVoices]_vars

--------------------------------------------------------------------------
(* Claims checked under SpecVoices.  A step is recognised as the call       *)
(* update_midi_voices(voices, e) by Update(e).                              *)

NoteOnEvents(r) == { e \in VoiceEvents(r) : e.kind = "NoteOn" }
AbsentKeyEvents == { e \in KeyEvents : e.kind \in { "NoteOff", "PolyTuning" } }

\* C1: a NoteOn for a key that is already in the registry is refused: the
\* stored voice stays as it is (pitch and pitch class of an earlier retune
\* included) and the condition is reported.
C1_DuplicateNoteOnKeepsVoice ==
    [][ \A e \in NoteOnEvents(voices) :
            (contains_key(voices, VoiceKey(e)) /\ Update(e))
                => (voices' = voices /\ report' = "note on for existing voice")
      ]_vars

\* C2: the registry never holds more than Capacity (256) voices, and a
\* NoteOn for a new key while it holds 256 is reported and leaves it exactly
\* as it was.
C2_CapacityFailsClosed ==
    /\ [](Size(voices) <= Capacity)
    /\ [][ \A e \in NoteOnEvents(voices) :
              (Size(voices) = Capacity /\ ~contains_key(voices, VoiceKey(e))
                  /\ Update(e))
                  => (voices' = voices /\ report' = "too many voices")
        ]_vars

C2_Witness ==
    /\ Size(voices) = Capacity
    /\ event.kind = "NoteOn"
    /\ ~contains_key(voices, VoiceKey(event))
    /\ report = "too many voices"

\* C6: a NoteOff or PolyTuning whose key is not in the registry leaves the
\* registry exactly as it was and is only reported.
C6_AbsentKeyLeavesRegistry ==
    [][ \A e \in AbsentKeyEvents :
            (~contains_key(voices, VoiceKey(e)) /\ Update(e))
                => /\ voices' = voices
                   /\ report' = IF e.kind = "NoteOff"
                                    THEN "off for nonexisting voice"
                                    ELSE "tuning for nonexistent voice"
      ]_vars

C6_Witness ==
    /\ event.kind = "PolyTuning"
    /\ ~contains_key(voices, VoiceKey(event))
    /\ report = "tuning for nonexistent voice"
    /\ Held(voices) # {}

OthersAsWithout(r, s, key) ==
    /\ r.bg = s.bg
    /\ \A k \in Keys \ { key } : r.v[k] = s.v[k]

\* C7 as claimed: after NoteOn(k) ... NoteOff(k) with only other keys'
\* events in between, k is not in the registry and every other key's voice
\* is what it would be had the two events of k not occurred.
C7_BracketLeavesNoTrace ==
    phase = "closed" =>
        /\ ~contains_key(voices, marked)
        /\ OthersAsWithout(voices, shadow, marked)

\* C7 as amended: ... every other key's voice is what it would be had the two
\* events of k not occurred, provided no NoteOn in between was refused
\* because the registry was full.
C7_BracketLeavesNoTraceUnlessFull ==
    phase = "closed" =>
        /\ ~contains_key(voices, marked)
        /\ ~fullSeen => OthersAsWithout(voices, shadow, marked)

C7_Witness ==
    /\ phase = "closed"
    /\ ~fullSeen
    /\ event = NoteOff(marked)
    /\ report = "none"
    /\ Held(voices) # {}
    /\ voices.bg > 0
    /\ voices # EmptyVoices

--------------------------------------------------------------------------
(* MidiLattice::process (lib.rs:290-318), step by step, and the snapshot    *)
(* channel: voices_input.write(self.voices.clone()) assigns the clone into  *)
(* the input buffer, which is not one machine step for a 256-entry map, and *)
(* then publishes it by one atomic swap of back_info.                       *)

\* Bounds: events the host holds for one process() call, and publishes in
\* one behaviour
MaxBatch == 2
MaxPublish == 3

\* what the assignment copies in one step: one key's entry, or the entries
\* of the background keys together
BgSlot == [channel |-> BG_CHANNEL, note |-> 0]
Slots == Keys \cup { BgSlot }

CopySlot(dst, src, s) ==
    IF s \in Keys
        THEN [dst EXCEPT !.v = [@ EXCEPT ![s] = src.v[s]]]
        ELSE [dst EXCEPT !.bg = src.bg]

\* the events a host may hand to one process() call
BatchEvents(r) ==
    LET k1 == [channel |-> 0, note |-> 60]
        k2 == [channel |-> 15, note |-> 61]
    IN  { NoteOn(None, k1), NoteOff(k1), NoteOn(Some(1), k2), NoteOff(k2),
          OtherEvent }
        \cup (IF r.bg > 0 /\ r.bg < Capacity
                 THEN { NoteOn(None, BgKey(r.bg)) } ELSE {})

notProducer == <<consVars, startVer, gotVer, bracketHist, arithVars, fnVars,
                 learnVars, highlightVars>>

\* entry of process(): let mut event_counter = 0, with the host holding
\* between 0 and MaxBatch events for this call
ProcessBegin ==
    /\ ppc = "idle"
    /\ pubCount < MaxPublish
    /\ \E n \in 0..MaxBatch : pending' = n
    /\ event_counter' = 0
    /\ ppc' = "loop"
    /\ batchStart' = voices
    /\ consumed' = << >>
    /\ UNCHANGED <<voices, event, report, bufVars, pubCount, published, bufVer>>
    /\ UNCHANGED notProducer

\* a loop that gives up the batch at the first reported event
LoopBodyStopOnError(e) ==
    /\ voices' = update_midi_voices(voices, e).voices
    /\ report' = update_midi_voices(voices, e).report
    /\ event' = e
    /\ event_counter' = event_counter + 1
    /\ pending' = pending - 1
    /\ consumed' = Append(consumed, e)
    /\ ppc' = IF update_midi_voices(voices, e).report = "none"
                 THEN "loop" ELSE "return"

\* while let Some(event) = context.next_event() { update_midi_voices(..);
\* context.send_event(event); event_counter += 1; }
LoopBody(e) ==
    /\ voices' = update_midi_voices(voices, e).voices
    /\ report' = update_midi_voices(voices, e).report
    /\ event' = e
    /\ event_counter' = event_counter + 1
    /\ pending' = pending - 1
    /\ consumed' = Append(consumed, e)
    /\ ppc' = "loop"

ProcessNextEvent ==
    /\ ppc = "loop"
    /\ pending > 0
    /\ \E e \in BatchEvents(voices) : LoopBody(e)
    /\ UNCHANGED <<batchStart, bufVars, pubCount, published, bufVer>>
    /\ UNCHANGED notProducer

\* a process() that takes the clone only when the batch changed the registry
ProcessLoopExitOnChange ==
    /\ ppc = "loop"
    /\ pending = 0
    /\ ppc' = IF voices # batchStart THEN "write" ELSE "return"
    /\ wpos' = {}
    /\ event' = NoEvent
    /\ report' = "none"
    /\ batchStart' = voices
    /\ consumed' = << >>
    /\ UNCHANGED <<voices, event_counter, pending>>
    /\ UNCHANGED <<buffers, back_info, input_idx, output_idx>>
    /\ UNCHANGED <<pubCount, published, bufVer>>
    /\ UNCHANGED notProducer

\* next_event() returns None and the loop's local goes out of scope; if
\* event_counter > 0 the clone is taken
ProcessLoopExit ==
    /\ ppc = "loop"
    /\ pending = 0
    /\ ppc' = IF event_counter > 0 THEN "write" ELSE "return"
    /\ wpos' = {}
    /\ event' = NoEvent
    /\ report' = "none"
    /\ batchStart' = voices
    /\ consumed' = << >>
    /\ UNCHANGED <<voices, event_counter, pending>>
    /\ UNCHANGED <<buffers, back_info, input_idx, output_idx>>
    /\ UNCHANGED <<pubCount, published, bufVer>>
    /\ UNCHANGED notProducer

\* Input::write: *self.input_buffer_mut() = value
WriteTargetOutput == output_idx

WriteTarget == input_idx

ProcessWriteSlot ==
    /\ ppc = "write"
    /\ \E s \in Slots \ wpos :
        /\ buffers' = [buffers EXCEPT ![WriteTarget] = CopySlot(@, voices, s)]
        /\ wpos' = wpos \cup { s }
        /\ ppc' = IF wpos \cup { s } = Slots THEN "publish" ELSE "write"
    /\ UNCHANGED <<voices, event_counter, pending, event, report>>
    /\ UNCHANGED <<back_info, input_idx, output_idx>>
    /\ UNCHANGED <<batchHist, pubCount, published, bufVer>>
    /\ UNCHANGED notProducer

\* Input::publish: back_info.swap(input_idx | DIRTY); the former back
\* buffer becomes the input buffer
PublishSwap ==
    /\ ppc = "publish"
    /\ back_info' = [idx |-> input_idx, dirty |-> TRUE]
    /\ input_idx' = back_info.idx
    /\ pubCount' = pubCount + 1
    /\ published' = [published EXCEPT ![input_idx] = voices]
    /\ bufVer' = [bufVer EXCEPT ![input_idx] = pubCount + 1]
    /\ ppc' = "return"
    /\ UNCHANGED <<voices, event_counter, pending, event, report>>
    /\ UNCHANGED <<buffers, output_idx, wpos, batchHist>>
    /\ UNCHANGED notProducer

\* a channel whose Input sits behind the consumers' mutex
PublishUnderLock == lock = 0 /\ PublishSwap

\* voices_input is owned by the audio thread alone (lib.rs:25)
ProcessPublish == PublishSwap

\* ProcessStatus::Normal
ProcessReturn ==
    /\ ppc = "return"
    /\ ppc' = "idle"
    /\ event' = NoEvent
    /\ report' = "none"
    /\ event_counter' = 0
    /\ pending' = 0
    /\ batchStart' = voices
    /\ consumed' = << >>
    /\ UNCHANGED <<voices, bufVars, pubCount, published, bufVer>>
    /\ UNCHANGED notProducer

\* one whole process() call whose batch is the NoteOns of BgKey(0),
\* BgKey(1), ..., BgKey(BackgroundFill - 1), no call site running meanwhile
ProcessFillCall ==
    /\ ppc = "idle"
    /\ pubCount < MaxPublish
    /\ voices.bg = 0
    /\ \A c \in Sites : cpc[c] = "idle"
    /\ voices' = BackgroundNoteOns(voices, 0, BackgroundFill)
    /\ buffers' = [buffers EXCEPT
                      ![input_idx] = BackgroundNoteOns(voices, 0, BackgroundFill)]
    /\ back_info' = [idx |-> input_idx, dirty |-> TRUE]
    /\ input_idx' = back_info.idx
    /\ wpos' = Slots
    /\ pubCount' = pubCount + 1
    /\ published' = [published EXCEPT
                        ![input_idx] = BackgroundNoteOns(voices, 0, BackgroundFill)]
    /\ bufVer' = [bufVer EXCEPT ![input_idx] = pubCount + 1]
    /\ batchStart' = BackgroundNoteOns(voices, 0, BackgroundFill)
    /\ UNCHANGED <<ppc, event_counter, pending, event, report, output_idx, consumed>>
    /\ UNCHANGED notProducer

--------------------------------------------------------------------------
(* The editor's call sites: voices_output.lock().unwrap(), then             *)
(* .read().values()...collect(), then the guard is dropped                  *)
(* (grid.rs:1065-1075, tuning_learn_button.rs:131-139,                      *)
(* note_match_info.rs:67-74).  Output::read() is update() followed by a     *)
(* reference to the output buffer; update() loads back_info and, if the     *)
(* dirty bit is set, swaps the output buffer's index into it.               *)

notConsumer == <<progVars, buffers, input_idx, wpos, pubCount, published,
                 bufVer, batchHist, bracketHist, arithVars, fnVars, learnVars,
                 highlightVars>>

\* self.voices_output.lock().unwrap()
SiteLock(c) ==
    /\ cpc[c] = "idle"
    /\ lock = 0
    /\ lock' = c
    /\ cpc' = [cpc EXCEPT ![c] = "check"]
    /\ startVer' = [startVer EXCEPT ![c] = pubCount]
    /\ UNCHANGED <<cpos, got, gotVer, back_info, output_idx>>
    /\ UNCHANGED notConsumer

\* an update() that swaps whether or not the dirty bit is set
SiteUpdateAlwaysSwap(c) ==
    /\ cpc[c] = "check"
    /\ cpc' = [cpc EXCEPT ![c] = "swap"]
    /\ cpos' = [cpos EXCEPT ![c] = {}]
    /\ got' = [got EXCEPT ![c] = EmptyVoices]
    /\ UNCHANGED <<lock, startVer, gotVer, back_info, output_idx>>
    /\ UNCHANGED notConsumer

\* Output::update: let updated = self.updated()
SiteUpdateCheck(c) ==
    /\ cpc[c] = "check"
    /\ cpc' = [cpc EXCEPT ![c] = IF back_info.dirty THEN "swap" ELSE "read"]
    /\ cpos' = [cpos EXCEPT ![c] = {}]
    /\ got' = [got EXCEPT ![c] = EmptyVoices]
    /\ UNCHANGED <<lock, startVer, gotVer, back_info, output_idx>>
    /\ UNCHANGED notConsumer

\* an update() that leaves the output buffer where it is
SkipSwap(c) ==
    /\ cpc[c] = "swap"
    /\ cpc' = [cpc EXCEPT ![c] = "read"]
    /\ UNCHANGED <<back_info, output_idx>>

\* Output::update: back_info.swap(output_idx); the former back buffer
\* becomes the output buffer
UpdateSwap(c) ==
    /\ cpc[c] = "swap"
    /\ cpc' = [cpc EXCEPT ![c] = "read"]
    /\ back_info' = [idx |-> output_idx, dirty |-> FALSE]
    /\ output_idx' = back_info.idx

SiteUpdateSwap(c) ==
    /\ UpdateSwap(c)
    /\ UNCHANGED <<lock, cpos, got, startVer, gotVer>>
    /\ UNCHANGED notConsumer

\* the order in which values() walks the entries
SlotOrder ==
    << [channel |-> 0, note |-> 60], [channel |-> 15, note |-> 61], BgSlot >>

\* .values() ... .collect(): the next entry of the output buffer is copied
SiteReadSlot(c) ==
    /\ cpc[c] = "read"
    /\ cpos[c] # Slots
    /\ LET s == SlotOrder[Cardinality(cpos[c]) + 1]
       IN  /\ got' = [got EXCEPT ![c] = CopySlot(@, buffers[output_idx], s)]
           /\ cpos' = [cpos EXCEPT ![c] = @ \cup { s }]
    /\ UNCHANGED <<lock, cpc, startVer, gotVer, back_info, output_idx>>
    /\ UNCHANGED notConsumer

\* the MutexGuard is dropped once the collection is complete, and the
\* collection leaves with the caller
SiteUnlock(c) ==
    /\ cpc[c] = "read"
    /\ cpos[c] = Slots
    /\ lock' = 0
    /\ cpc' = [cpc EXCEPT ![c] = "idle"]
    /\ cpos' = [cpos EXCEPT ![c] = {}]
    /\ got' = [got EXCEPT ![c] = EmptyVoices]
    /\ startVer' = [startVer EXCEPT ![c] = 0]
    /\ gotVer' = bufVer[output_idx]
    /\ UNCHANGED <<back_info, output_idx>>
    /\ UNCHANGED notConsumer

Next ==
    \/ ProcessBegin
    \/ ProcessNextEvent
    \/ ProcessLoopExit
    \/ ProcessWriteSlot
    \/ ProcessPublish
    \/ ProcessReturn
    \/ \E c \in Sites : SiteLock(c)
    \/ \E c \in Sites : SiteUpdateCheck(c)
    \/ \E c \in Sites : SiteUpdateSwap(c)
    \/ \E c \in Sites : SiteReadSlot(c)
    \/ \E c \in Sites : SiteUnlock(c)

Init == InitProgram /\ InitHistory /\ InitArith

Spec == Init /\ [][Next]_vars

\* process() calls alone, the editor closed
NextBatch ==
    \/ ProcessBegin
    \/ ProcessNextEvent
    \/ ProcessLoopExit
    \/ ProcessWriteSlot
    \/ ProcessPublish
    \/ ProcessReturn
    \/ ProcessFillCall

SpecBatch == Init /\ [][NextBatch]_vars

--------------------------------------------------------------------------
(* Claims checked under Spec and SpecBatch.                                 *)

\* call site c has collected every entry and still holds the lock
ReadComplete(c) == cpc[c] = "read" /\ cpos[c] = Slots

\* C3: under every interleaving of process() with the call sites, the
\* value a call site has collected equals the registry as it stood at the
\* end of one process() call (the one that published the buffer read), or
\* the initial empty registry: never a mixture, never a mid-batch state.
C3_ReadIsOnePublishedRegistry ==
    \A c \in Sites :
        ReadComplete(c) =>
            /\ got[c] = published[output_idx]
            /\ bufVer[output_idx] = 0 => got[c] = EmptyVoices

C3_Witness ==
    \E c \in Sites :
        /\ ReadComplete(c)
        /\ got[c] = published[output_idx]
        /\ got[c] # EmptyVoices
        /\ got[c] # voices
        /\ ppc = "write"
        /\ wpos # {}

\* C4: a read that begins after publish number n has finished returns the
\* snapshot of publish n or of a later one (so after s1 and s2, s2 or
\* later), and a read performed before any publish returns the empty
\* registry.
C4_ReadReturnsLatestOrLater ==
    \A c \in Sites :
        ReadComplete(c) =>
            /\ bufVer[output_idx] >= startVer[c]
            /\ bufVer[output_idx] <= pubCount
            /\ got[c] = published[output_idx]
            /\ pubCount = 0 => got[c] = EmptyVoices

C4_Witness ==
    \E c \in Sites :
        /\ ReadComplete(c)
        /\ startVer[c] = 2
        /\ bufVer[output_idx] = 2
        /\ got[c] = published[output_idx]

\* C5: the producer's write and publish steps are enabled in every
\* reachable state in which process() has got to them, whatever the call
\* sites are doing, and a call site holding the lock always has its next
\* step enabled, whatever the producer is doing.
C5_NeitherSideWaits ==
    /\ ppc = "write" => ENABLED ProcessWriteSlot
    /\ ppc = "publish" => ENABLED ProcessPublish
    /\ \A c \in Sites :
        lock = c => ENABLED (\/ SiteUpdateCheck(c)
                             \/ SiteUpdateSwap(c)
                             \/ SiteReadSlot(c)
                             \/ SiteUnlock(c))

C5_Witness ==
    \E c \in Sites :
        /\ lock = c
        /\ cpc[c] = "read"
        /\ cpos[c] # {}
        /\ cpos[c] # Slots
        /\ pubCount > startVer[c]
        /\ ppc = "publish"

\* C8: while process() runs its loop the registry is the result of
\* applying, in arrival order, every event taken so far, whether or not one
\* of them was reported (duplicate voice, unknown voice, registry full);
\* process() leaves the loop only when the host holds no further event of
\* the batch, and it can always take its next step up to its return.
C8_WholeBatchAppliedInOrder ==
    /\ ppc = "loop" =>
        /\ Len(consumed) = event_counter
        /\ voices = ApplyAll(batchStart, consumed)
    /\ ppc \in { "write", "publish", "return" } => pending = 0
    /\ ppc # "idle" => ENABLED (\/ ProcessNextEvent
                                \/ ProcessLoopExit
                                \/ ProcessWriteSlot
                                \/ ProcessPublish
                                \/ ProcessReturn)

C8_Witness ==
    /\ ppc = "loop"
    /\ pending = 0
    /\ Len(consumed) = 2
    /\ update_midi_voices(batchStart, consumed[1]).report = "too many voices"
    /\ consumed[2].kind = "NoteOff"
    /\ voices # batchStart
    /\ voices = ApplyAll(batchStart, consumed)

--------------------------------------------------------------------------
(* SpecArith: the PitchClass operations of tuning.rs applied to operands    *)
(* pa, pb drawn from samples; a result may be taken as operand once more.   *)

PitchClassSamples ==
    { 0, 1, 100000000, 386313714, 600000000, 600000001, 701955001,
      OCTAVE_MICROCENTS - 1 }

\* u32 arguments of from_microcents
MicrocentSamples ==
    { 0, 1, OCTAVE_MICROCENTS - 1, OCTAVE_MICROCENTS, OCTAVE_MICROCENTS + 1,
      2147483647 }

\* u8 arguments of from_midi_note
NoteSamples == { 0, 1, 11, 12, 60, 127, 255 }

\* i32 arguments of multiply
Multipliers ==
    { I32_MIN, -2147483647, -1000000000, -3, -2, -1, 0, 1, 2, 4, 9,
      1000000000, 2147483647 }

PitchClassOps ==
    { "from_microcents", "from_midi_note", "add", "neg", "sub", "multiply" }

notArith ==
    <<progVars, bufVars, consVars, chanHist, batchHist, bracketHist, fnVars,
      learnVars, highlightVars>>

ArithFromMicrocents ==
    \E m \in MicrocentSamples :
        /\ pr' = from_microcents(m)
        /\ pop' = "from_microcents"
        /\ pn' = 0
        /\ UNCHANGED <<pa, pb>>
        /\ UNCHANGED notArith

ArithFromMidiNote ==
    \E n \in NoteSamples :
        /\ pr' = from_midi_note(n)
        /\ pop' = "from_midi_note"
        /\ pn' = 0
        /\ UNCHANGED <<pa, pb>>
        /\ UNCHANGED notArith

ArithAdd ==
    /\ pr' = PcAdd(pa, pb)
    /\ pop' = "add"
    /\ pn' = 0
    /\ UNCHANGED <<pa, pb>>
    /\ UNCHANGED notArith

ArithNeg ==
    /\ pr' = PcNeg(pa)
    /\ pop' = "neg"
    /\ pn' = 0
    /\ UNCHANGED <<pa, pb>>
    /\ UNCHANGED notArith

ArithSub ==
    /\ pr' = PcSub(pa, pb)
    /\ pop' = "sub"
    /\ pn' = 0
    /\ UNCHANGED <<pa, pb>>
    /\ UNCHANGED notArith

\* p.multiply(n) in a build with overflow checks ("debug") or without
\* ("release"): where an intermediate value overflows, the first panics
\* and the second goes on with the wrapped value
ArithMultiply ==
    \E n \in Multipliers, build \in Builds :
        /\ pn' = n
        /\ IF multiply_overflows(pa, n) /\ build = "debug"
              THEN pop' = "panic" /\ pr' = pr
              ELSE pop' = "multiply" /\ pr' = multiply(pa, n)
        /\ UNCHANGED <<pa, pb>>
        /\ UNCHANGED notArith

ArithDistance ==
    /\ pr' = distance_to(pa, pb)
    /\ pop' = "distance_to"
    /\ pn' = 0
    /\ UNCHANGED <<pa, pb>>
    /\ UNCHANGED notArith

\* the PitchClass just produced becomes the left operand
ArithReuse ==
    /\ pop \in PitchClassOps
    /\ pa \in PitchClassSamples
    /\ pa' = pr
    /\ pop' = "none"
    /\ pn' = 0
    /\ UNCHANGED <<pb, pr>>
    /\ UNCHANGED notArith

NextArith ==
    \/ ArithFromMicrocents
    \/ ArithFromMidiNote
    \/ ArithAdd
    \/ ArithNeg
    \/ ArithSub
    \/ ArithMultiply
    \/ ArithDistance
    \/ ArithReuse

InitArithSamples ==
    /\ InitProgram
    /\ InitHistory
    /\ pa \in PitchClassSamples
    /\ pb \in PitchClassSamples
    /\ pn = 0
    /\ pr = 0
    /\ pop = "none"
    /\ InitFn

SpecArith == InitArithSamples /\ [][NextArith]_vars

\* C9: every PitchClass produced by from_microcents, from_midi_note,
\* addition, negation, subtraction or multiply holds a microcent count in
\* [0, 1,200,000,000), pitch class 0 among the operands included.
C9_ResultWithinOctave ==
    pop \in PitchClassOps => (0 <= pr /\ pr < OCTAVE_MICROCENTS)

\* C10: a.distance_to(b) is the smaller of (a - b) mod octave and
\* (b - a) mod octave: symmetric, within [0, octave/2], 0 when a = b, and
\* 1 microcent between 0 and octave - 1.
C10_DistanceIsCircularMinimum ==
    pop = "distance_to" =>
        /\ pr = Min((pa - pb) % OCTAVE_MICROCENTS, (pb - pa) % OCTAVE_MICROCENTS)
        /\ pr = distance_to(pb, pa)
        /\ 0 <= pr /\ pr <= OCTAVE_MICROCENTS \div 2
        /\ pa = pb => pr = 0
        /\ (pa = 0 /\ pb = OCTAVE_MICROCENTS - 1) => pr = 1

C10_Witness ==
    /\ pop = "distance_to"
    /\ pa = 0
    /\ pb = OCTAVE_MICROCENTS - 1
    /\ pr = 1

\* (n * p) mod octave for an i32 n, negative n included
ModularProduct(n, p) ==
    IF n >= 0 THEN MulModOctave(n, p)
    ELSE IF n = I32_MIN
        THEN (OCTAVE_MICROCENTS - Dbl(MulModOctave(1073741824, p))) % OCTAVE_MICROCENTS
        ELSE (OCTAVE_MICROCENTS - MulModOctave(-n, p)) % OCTAVE_MICROCENTS

\* C11: for every pitch class p and every i32 multiplier n, the extremes of
\* the type included, p.multiply(n) equals (n * p) mod octave and no
\* intermediate value of the computation overflows its integer type.
C11_MultiplyIsModularProduct ==
    /\ pop # "panic"
    /\ pop = "multiply" =>
        /\ ~multiply_overflows(pa, pn)
        /\ pr = ModularProduct(pn, pa)

--------------------------------------------------------------------------
(* SpecFn: the pure functions of tuning.rs and grid.rs.  The initial state  *)
(* draws the arguments of one call (fin, with the function's name in        *)
(* fin.op) from samples; the call sets fop to that name and fout to what    *)
(* the function returned.                                                   *)

notFn == <<progVars, bufVars, consVars, chanHist, batchHist, bracketHist,
           arithVars, learnVars, highlightVars>>

\* the call op(fin) is due
Due(op) == fop = "none" /\ fin.op = op

\* the call has returned out
Returned(out) ==
    /\ fop' = fin.op
    /\ fout' = out
    /\ UNCHANGED fin
    /\ UNCHANGED notFn

\* p.multiply(n) as the given build runs it: None where it panics
multiply_build(build, self, rhs) ==
    IF multiply_overflows(self, rhs) /\ build = "debug"
        THEN None
        ELSE Some(multiply(self, rhs))

Abs(x) == IF x < 0 THEN -x ELSE x

\* whether m * n is an i32, for m, n above i32::MIN
ProductFitsI32(m, n) ==
    IF m = 0 \/ n = 0 THEN TRUE
    ELSE IF Abs(m) <= 2147483647 \div Abs(n) THEN TRUE
    ELSE IF Abs(n) < 2 \/ (m < 0) = (n < 0) THEN FALSE
    ELSE /\ 2147483647 % Abs(n) = Abs(n) - 1
         /\ Abs(m) - 1 = 2147483647 \div Abs(n)

\* m * n in i32, where ProductFitsI32(m, n)
ProductI32(m, n) ==
    IF m = 0 \/ n = 0 THEN 0
    ELSE IF Abs(m) <= 2147483647 \div Abs(n) THEN m * n
    ELSE I32_MIN

\* i32 pairs handed to p.multiply(m).multiply(n)
ComposeMultipliers ==
    { -1073741824, -46341, -1000, -3, -2, -1, 0, 1, 2, 3, 7, 46340,
      1073741823 }

MultiplyTwiceInputs ==
    { r \in [op : { "multiply_twice" }, build : Builds, p : PitchClassSamples,
             m : ComposeMultipliers, n : ComposeMultipliers] :
        ProductFitsI32(r.m, r.n) }

\* p.multiply(m).multiply(n) and p.multiply(m * n)
FnMultiplyTwice ==
    /\ Due("multiply_twice")
    /\ LET first == multiply_build(fin.build, fin.p, fin.m)
           twice == IF first = None THEN None
                    ELSE multiply_build(fin.build, first[1], fin.n)
           once  == multiply_build(fin.build, fin.p, ProductI32(fin.m, fin.n))
       IN  Returned([twice |-> twice, once |-> once])

(* ---- PrimeCountVector::pitch_class ---- *)

PrimeCountVector(threes, fives, sevens) ==
    [threes |-> threes, fives |-> fives, sevens |-> sevens]

\* v.pitch_class(three_tuning, five_tuning, seven_tuning) as the given build
\* runs it: None where one of the three multiply() calls panics
pitch_class(build, self, three_tuning, five_tuning, seven_tuning) ==
    LET t == multiply_build(build, three_tuning, self.threes)
        f == multiply_build(build, five_tuning, self.fives)
        s == multiply_build(build, seven_tuning, self.sevens)
    IN  IF t = None \/ f = None \/ s = None THEN None
        ELSE Some(PcAdd(PcAdd(t[1], f[1]), s[1]))

\* the componentwise sum of two vectors
VectorSum(v1, v2) ==
    PrimeCountVector(v1.threes + v2.threes, v1.fives + v2.fives,
                     v1.sevens + v2.sevens)

\* vectors whose components are within [-2^30, 2^30), so that every
\* componentwise sum of two of them is an i32
VectorSamples ==
    { PrimeCountVector(0, 0, 0), PrimeCountVector(1, 0, 0),
      PrimeCountVector(0, 1, 0), PrimeCountVector(0, 0, 1),
      PrimeCountVector(-1, 2, -3), PrimeCountVector(3, -2, 1),
      PrimeCountVector(-1073741824, 0, 0),
      PrimeCountVector(1073741823, 1, -1),
      PrimeCountVector(0, -1073741824, 5),
      PrimeCountVector(2, 3, 1073741823) }

\* tunings of the three generators: just, 12-TET, and values at the ends
TuningSamples ==
    { [three |-> 701955001, five |-> 386313714, seven |-> 968825906],
      [three |-> 700000000, five |-> 400000000, seven |-> 1000000000],
      [three |-> 1, five |-> OCTAVE_MICROCENTS - 1, seven |-> 600000001] }

PitchClassSumInputs ==
    [op : { "pitch_class_sum" }, build : Builds, tuning : TuningSamples,
     v1 : VectorSamples, v2 : VectorSamples]

\* pitch_class(v1 + v2) and pitch_class(v1) + pitch_class(v2)
FnPitchClassSum ==
    /\ Due("pitch_class_sum")
    /\ LET t  == fin.tuning
           of(v) == pitch_class(fin.build, v, t.three, t.five, t.seven)
           a  == of(fin.v1)
           b  == of(fin.v2)
       IN  Returned([sum   |-> of(VectorSum(fin.v1, fin.v2)),
                     parts |-> IF a = None \/ b = None THEN None
                               ELSE Some(PcAdd(a[1], b[1]))])

(* ---- PitchClass::from_cents_f32 ---- *)

\* An f32 argument in cents is written as an integer count of 2^-16 cents
\* that f32 holds exactly (at most 24 significant bits).
F32_UNITS_PER_CENT == 65536

IsF32(x) == RoundF32(Abs(x)) = Abs(x)

\* f32::rem_euclid(rhs), rhs > 0:  let r = self % rhs (exact, with the sign
\* of self);  if r < 0.0 { r + rhs.abs() } else { r }  -- the sum is rounded
rem_euclid_f32(x, rhs) ==
    LET r == IF x >= 0 THEN x % rhs ELSE -((-x) % rhs)
    IN  IF r < 0 THEN RoundF32(r + rhs) ELSE r

RECURSIVE Pow2(_)
Pow2(j) == IF j = 0 THEN 1 ELSE 2 * Pow2(j - 1)

\* the f32 nearest to (A + B/1024) * 2^-j (ties to even), as m * 2^-j
RECURSIVE NearestF32(_, _, _)
NearestF32(A, B, j) ==
    IF B = 0 /\ A < 16777216 THEN [m |-> A, j |-> j]
    ELSE IF A >= 8388608
        THEN LET u    == UlpF32(A)
                 q    == A \div u
                 rest == 1024 * (A % u) + B
                 half == 512 * u
             IN  [m |-> IF rest > half \/ (rest = half /\ q % 2 = 1)
                           THEN (q + 1) * u ELSE q * u,
                  j |-> j]
        ELSE NearestF32(2 * A + (2 * B) \div 1024, (2 * B) % 1024, j + 1)

\* x * CENTS_TO_MICROCENTS_F32 for x >= 0 in 2^-16 cents:
\* x * 10^6 / 2^16 = x * 15625 / 1024, rounded to f32
times_cents_to_microcents_f32(x) ==
    LET hi == x \div 1024
        lo == x % 1024
    IN  NearestF32(hi * 15625 + (lo * 15625) \div 1024,
                   (lo * 15625) % 1024, 0)

\* f32::round(): to the nearest integer, halves away from zero (v >= 0)
round_f32(v) ==
    IF v.j = 0 THEN v.m ELSE (v.m + Pow2(v.j - 1)) \div Pow2(v.j)

\* `as u32` of a float with an integer value: saturates below at 0
as_u32(x) == IF x < 0 THEN 0 ELSE x

from_cents_f32(cents) ==
    as_u32(round_f32(times_cents_to_microcents_f32(
        rem_euclid_f32(cents, 1200 * F32_UNITS_PER_CENT))))

\* cents handed to from_cents_f32, in 2^-16 cents: 0, the smallest step,
\* 1, 5, 5 + 2^-16, 386.3137..., 700, 700 + 2^-14, the f32 below 1200,
\* 1200, 2400, and negative values down to just below -1200
CentsSamples ==
    { c \in { 0, 1, 65536, 327680, 327681, 25317376, 45875200, 45875204,
              78643192, 78643200, 157286400,
              -1, -4, -5, -65536, -45875200, -78643200, -78643208 } :
        IsF32(c) }

FromCentsInputs ==
    [op : { "from_cents_f32" }, cents : CentsSamples]

FnFromCentsF32 ==
    /\ Due("from_cents_f32")
    /\ Returned([pitch_class |-> from_cents_f32(fin.cents)])

(* ---- DrawGridArgs::new, DrawNodeArgs::new: the pitch class of a node ---- *)

\* TuningParams, each value an f32 in 2^-16 cents: the C offset 0, 50, -100
\* or 600 cents, the fifth 700 or 702 cents, the third 400 cents, the
\* seventh 1000 cents
TuningParams ==
    [c_offset : { 0, 3276800, -6553600, 39321600 },
     three    : { 45875200, 46006272 },
     five     : { 26214400 },
     seven    : { 65536000 }]

\* the tuning fields of DrawGridArgs::new(grid, ..)
DrawGridArgs_new(tuning_params) ==
    [three_tuning |-> from_cents_f32(tuning_params.three),
     five_tuning  |-> from_cents_f32(tuning_params.five),
     seven_tuning |-> from_cents_f32(tuning_params.seven)]

\* the pitch_class field of DrawNodeArgs::new(args, .., primes)
DrawNodeArgs_new(build, args, primes) ==
    pitch_class(build, primes, args.three_tuning, args.five_tuning,
                args.seven_tuning)

\* nodes near the origin of the lattice
NodeSamples ==
    { PrimeCountVector(0, 0, 0), PrimeCountVector(1, 0, 0),
      PrimeCountVector(0, 1, 0), PrimeCountVector(0, 0, 1),
      PrimeCountVector(-1, 2, -3), PrimeCountVector(3, -2, 1),
      PrimeCountVector(-4, -1, 2) }

DrawNodeInputs ==
    [op : { "DrawNodeArgs_new" }, build : Builds,
     tuning_params : TuningParams, primes : NodeSamples]

FnDrawNodeArgsNew ==
    /\ Due("DrawNodeArgs_new")
    /\ Returned([pitch_class |->
           DrawNodeArgs_new(fin.build, DrawGridArgs_new(fin.tuning_params),
                            fin.primes)])

(* ---- PitchClass::round ---- *)

\* 10u32.pow(e)
RECURSIVE Pow10(_)
Pow10(e) == IF e = 0 THEN 1 ELSE 10 * Pow10(e - 1)

round(self, decimal_digits) ==
    IF decimal_digits > 6 THEN self
    ELSE LET raised == Pow10(6 - decimal_digits)
         IN  from_microcents(
                 IF self % raised >= raised \div 2
                     THEN self - (self % raised) + raised
                     ELSE self - (self % raised))

\* pitch classes at, just below and just above the halves of the steps
RoundSamples ==
    { 0, 1, 4, 5, 49, 50, 499999, 500000, 386313714, 701955001,
      1199499999, 1199500000, 1199999994, 1199999995,
      OCTAVE_MICROCENTS - 1 }

RoundInputs ==
    [op : { "round" }, p : RoundSamples, decimal_digits : 0 .. 7]

FnRound ==
    /\ Due("round")
    /\ Returned([pitch_class |-> round(fin.p, fin.decimal_digits)])

(* ---- PrimeCountVector::note_name_info ---- *)

I32_MAX == 2147483647

\* i32 + and - : whether the result leaves i32, and the result wrapped
AddOverflowsI32(a, b) ==
    IF a >= 0 /\ b >= 0 THEN a > I32_MAX - b
    ELSE IF a < 0 /\ b < 0 THEN a < I32_MIN - b
    ELSE FALSE

WrappingAddI32(a, b) ==
    IF ~AddOverflowsI32(a, b) THEN a + b
    ELSE IF a >= 0 THEN (a + I32_MIN) + (b + I32_MIN)
    ELSE (a - I32_MIN) + (b - I32_MIN)

SubOverflowsI32(a, b) ==
    IF a >= 0 /\ b < 0 THEN a > I32_MAX + b
    ELSE IF a < 0 /\ b >= 0 THEN a < I32_MIN + b
    ELSE FALSE

WrappingSubI32(a, b) ==
    IF ~SubOverflowsI32(a, b) THEN a - b
    ELSE IF a >= 0 THEN (a + I32_MIN) - (b - I32_MIN)
    ELSE (a - I32_MIN) - (b + I32_MIN)

\* i32 * k for k = 2 or 4
MulOverflowsI32(a, k) ==
    IF a >= 0 THEN a > I32_MAX \div k ELSE a < -((I32_MAX \div k) + 1)

WrappingMulI32(a, k) ==
    LET span == (I32_MAX \div k) + 1            \* 2^31 / k
        low  == a % span
    IN  IF (a \div span) % 2 = 0 THEN k * low ELSE k * (low - span)

\* i32 unary minus
NegOverflowsI32(a) == a = I32_MIN
WrappingNegI32(a) == IF a = I32_MIN THEN I32_MIN ELSE -a

\* i32 % and / (truncating), i32::rem_euclid and i32::div_euclid, rhs > 0
RemI32(a, rhs) ==
    LET m == a % rhs IN IF a >= 0 \/ m = 0 THEN m ELSE m - rhs
DivI32(a, rhs) == (a - RemI32(a, rhs)) \div rhs
rem_euclid(a, rhs) ==
    LET r == RemI32(a, rhs) IN IF r < 0 THEN r + rhs ELSE r
div_euclid(a, rhs) ==
    LET q == DivI32(a, rhs) IN IF RemI32(a, rhs) < 0 THEN q - 1 ELSE q

NOTE_NAMES == << "F", "C", "G", "D", "A", "E", "B" >>

\* note_name_info() as the given build runs it: None where an i32 operation
\* overflows in a build that checks, wrapped values in one that does not
note_name_info(build, self) ==
    LET fives4  == WrappingMulI32(self.fives, 4)
        sevens2 == WrappingMulI32(self.sevens, 2)
        one3    == WrappingAddI32(1, self.threes)
        sum     == WrappingAddI32(one3, fives4)
        letter_names_idx == WrappingSubI32(sum, sevens2)
        overflows ==
            \/ AddOverflowsI32(1, self.threes)
            \/ MulOverflowsI32(self.fives, 4)
            \/ AddOverflowsI32(one3, fives4)
            \/ MulOverflowsI32(self.sevens, 2)
            \/ SubOverflowsI32(sum, sevens2)
            \/ NegOverflowsI32(self.fives)
    IN  IF overflows /\ build = "debug" THEN None
        ELSE Some([letter_name |-> NOTE_NAMES[rem_euclid(letter_names_idx, 7) + 1],
                   sharps_or_flats |-> div_euclid(letter_names_idx, 7),
                   syntonic_commas |-> WrappingNegI32(self.fives)])

NoteNameInputs ==
    [op : { "note_name_info" }, build : Builds,
     primes : [threes : { -8, -2, -1, 0, 1, 6, I32_MAX },
               fives  : { I32_MIN, -2, -1, 0, 1, 2, 536870912 },
               sevens : { -1, 0, 1, 4, 1073741824 }]]

FnNoteNameInfo ==
    /\ Due("note_name_info")
    /\ Returned([info |-> note_name_info(fin.build, fin.primes)])

(* ---- comma_str, NoteNameInfo::syntonic_comma_str, sharps_or_flats_str ---- *)

\* A String is the sequence of its characters.
DigitChars == << "0", "1", "2", "3", "4", "5", "6", "7", "8", "9" >>

\* the decimal digits of n <= 0 taken as -n
RECURSIVE DigitsOfNegative(_)
DigitsOfNegative(n) ==
    LET d    == (10 - (n % 10)) % 10
        rest == (n + d) \div 10
    IN  IF rest = 0 THEN << DigitChars[d + 1] >>
        ELSE DigitsOfNegative(rest) \o << DigitChars[d + 1] >>

\* i32::to_string
to_string(n) ==
    IF n < 0 THEN << "-" >> \o DigitsOfNegative(n)
    ELSE DigitsOfNegative(-n)

\* i32::abs as the given build runs it: None where it panics
abs(build, n) ==
    IF NegOverflowsI32(n) /\ build = "debug" THEN None
    ELSE Some(IF n < 0 THEN WrappingNegI32(n) ELSE n)

\* comma_str with comma_count.abs() taken on entering the negative branch
comma_str_abs_first(build, comma_count, pos_char, neg_char) ==
    IF comma_count >= 1
        THEN Some(<< pos_char >> \o
                (IF comma_count = 1 THEN << >>
                 ELSE IF comma_count = 2 THEN << pos_char >>
                 ELSE IF comma_count < 100 THEN to_string(comma_count)
                 ELSE << "?" >>))
    ELSE IF comma_count <= -1
        THEN LET a == abs(build, comma_count)
             IN  IF a = None THEN None
                 ELSE Some(<< neg_char >> \o
                        (IF comma_count = -1 THEN << >>
                         ELSE IF comma_count = -2 THEN << neg_char >>
                         ELSE IF comma_count > -100 THEN to_string(a[1])
                         ELSE << "?" >>))
    ELSE Some(<< >>)

\* comma_str as the given build runs it: None where it panics
comma_str(build, comma_count, pos_char, neg_char) ==
    IF comma_count >= 1
        THEN Some(<< pos_char >> \o
                (IF comma_count = 1 THEN << >>
                 ELSE IF comma_count = 2 THEN << pos_char >>
                 ELSE IF comma_count < 100 THEN to_string(comma_count)
                 ELSE << "?" >>))
    ELSE IF comma_count <= -1
        THEN IF comma_count = -1 THEN Some(<< neg_char >>)
             ELSE IF comma_count = -2 THEN Some(<< neg_char, neg_char >>)
             ELSE IF comma_count > -100
                 THEN LET a == abs(build, comma_count)
                      IN  IF a = None THEN None
                          ELSE Some(<< neg_char >> \o to_string(a[1]))
             ELSE Some(<< neg_char, "?" >>)
    ELSE Some(<< >>)

syntonic_comma_str(build, self) ==
    comma_str(build, self.syntonic_commas, "+", "-")

sharps_or_flats_str(build, self) ==
    comma_str(build, self.sharps_or_flats, "#", "b")

\* counts at the ends of every range of the convention, and the ends of i32
CommaCounts ==
    { I32_MIN, -2147483647, -1000, -101, -100, -99, -42, -10, -9, -3, -2, -1,
      0, 1, 2, 3, 9, 10, 57, 99, 100, 101, 1000, I32_MAX }

CommaStrInputs ==
    [op : { "comma_str" }, build : Builds, comma_count : CommaCounts,
     of : { "syntonic_commas", "sharps_or_flats" }]

FnCommaStr ==
    /\ Due("comma_str")
    /\ LET info == [letter_name |-> "C",
                    sharps_or_flats |-> fin.comma_count,
                    syntonic_commas |-> fin.comma_count]
       IN  Returned([str |-> IF fin.of = "syntonic_commas"
                                THEN syntonic_comma_str(fin.build, info)
                                ELSE sharps_or_flats_str(fin.build, info)])

(* ---- grid.rs: get_matching_voices ---- *)

\* Voice::new(channel, pitch_class)
Voice(channel, pc) == [channel |-> channel, pitch_class |-> pc]

\* From<PitchClassDistance> for PitchClass
PitchClassFromDistance(pc_distance) == from_microcents(pc_distance)

\* partition_point(|pc| *pc < lowest) on a sorted slice: the 0-based index
\* of the first element that is not below lowest, or the length
partition_point(sorted_pitch_classes, lowest) ==
    Cardinality({ i \in DOMAIN sorted_pitch_classes :
                    sorted_pitch_classes[i] < lowest })

\* "Loop forwards from start idx" about the pitch class target (idx is
\* 0-based); around: whether the index goes back to 0 after the last voice.
\* returned: the function has returned from inside the loop
RECURSIVE LoopForwards(_, _, _, _, _, _, _)
LoopForwards(around, target, sorted_voices, tuning_tolerance, start_idx, idx, matching_voices) ==
    IF distance_to(sorted_voices[idx + 1].pitch_class, target)
           > tuning_tolerance
        THEN [returned |-> FALSE, matching_voices |-> matching_voices]
        ELSE LET pushed == Append(matching_voices, sorted_voices[idx + 1])
                 last   == idx = Len(sorted_voices) - 1
                 next   == IF last THEN 0 ELSE idx + 1
             IN  IF next = start_idx \/ (last /\ ~around)
                     THEN [returned |-> TRUE, matching_voices |-> pushed]
                     ELSE LoopForwards(around, target, sorted_voices,
                                       tuning_tolerance, start_idx, next,
                                       pushed)

\* "Loop backwards from start idx"
RECURSIVE LoopBackwards(_, _, _, _, _)
LoopBackwards(target, sorted_voices, tuning_tolerance, idx, matching_voices) ==
    LET prev == IF idx = 0 THEN Len(sorted_voices) - 1 ELSE idx - 1
    IN  IF distance_to(sorted_voices[prev + 1].pitch_class, target)
               > tuning_tolerance
            THEN matching_voices
            ELSE LoopBackwards(target, sorted_voices, tuning_tolerance,
                               prev,
                               Append(matching_voices,
                                      sorted_voices[prev + 1]))

MatchingVoicesFrom(around, target, sorted_voices, tuning_tolerance) ==
    IF Len(sorted_voices) = 0 THEN << >>
    ELSE LET lowest == PcSub(target,
                             PitchClassFromDistance(tuning_tolerance))
             found == partition_point(
                          [i \in DOMAIN sorted_voices |->
                              sorted_voices[i].pitch_class], lowest)
             start_idx == IF found = Len(sorted_voices) THEN 0 ELSE found
             forwards == LoopForwards(around, target, sorted_voices,
                                      tuning_tolerance, start_idx, start_idx,
                                      << >>)
         IN  IF forwards.returned THEN forwards.matching_voices
             ELSE LoopBackwards(target, sorted_voices, tuning_tolerance,
                                start_idx, forwards.matching_voices)

\* the forward loop stops after the last voice of the list
get_matching_voices_to_end(target, sorted_voices, tuning_tolerance) ==
    MatchingVoicesFrom(FALSE, target, sorted_voices, tuning_tolerance)

get_matching_voices(target, sorted_voices, tuning_tolerance) ==
    MatchingVoicesFrom(TRUE, target, sorted_voices, tuning_tolerance)

\* the backward loop's index step without the wrap from 0 to the last voice
backward_index_unwrapped(idx, len) == idx - 1

\* "if idx == 0 { idx = sorted_voices.len() - 1 } else { idx -= 1 }"
backward_index(idx, len) == IF idx = 0 THEN len - 1 ELSE idx - 1

\* "if idx == sorted_voices.len() - 1 { idx = 0 } else { idx += 1 }"
forward_index(idx, len) == IF idx = len - 1 THEN 0 ELSE idx + 1

\* iterations followed per loop; a loop still running after them is
\* reported as not stopped
ScanFuel(sorted_voices) == Len(sorted_voices) + Len(sorted_voices) + 1

\* sorted_voices[idx] is inside the list (idx is 0-based)
InBounds(sorted_voices, idx) == idx \in 0 .. Len(sorted_voices) - 1

\* The 0-based indices that "Loop forwards from start idx" reads, in order.
\* returned: left by the return inside the loop; stopped: the loop has ended
RECURSIVE ForwardScan(_, _, _, _, _, _)
ForwardScan(target, sorted_voices, tuning_tolerance, start_idx, idx, read) ==
    LET reads == Append(read, idx)
        next  == forward_index(idx, Len(sorted_voices))
    IN  IF ~InBounds(sorted_voices, idx)
            THEN [read |-> reads, returned |-> FALSE, stopped |-> TRUE]
        ELSE IF distance_to(sorted_voices[idx + 1].pitch_class, target)
                    > tuning_tolerance
            THEN [read |-> reads, returned |-> FALSE, stopped |-> TRUE]
        ELSE IF next = start_idx
            THEN [read |-> reads, returned |-> TRUE, stopped |-> TRUE]
        ELSE IF Len(reads) >= ScanFuel(sorted_voices)
            THEN [read |-> reads, returned |-> FALSE, stopped |-> FALSE]
        ELSE ForwardScan(target, sorted_voices, tuning_tolerance, start_idx,
                         next, reads)

\* The 0-based indices that "Loop backwards from start idx" reads, in order
RECURSIVE BackwardScan(_, _, _, _, _)
BackwardScan(target, sorted_voices, tuning_tolerance, idx, read) ==
    LET prev  == backward_index(idx, Len(sorted_voices))
        reads == Append(read, prev)
    IN  IF ~InBounds(sorted_voices, prev)
            THEN [read |-> reads, stopped |-> TRUE]
        ELSE IF distance_to(sorted_voices[prev + 1].pitch_class, target)
                    > tuning_tolerance
            THEN [read |-> reads, stopped |-> TRUE]
        ELSE IF Len(reads) >= ScanFuel(sorted_voices)
            THEN [read |-> reads, stopped |-> FALSE]
        ELSE BackwardScan(target, sorted_voices, tuning_tolerance, prev,
                          reads)

\* the reads of one call of get_matching_voices on a non-empty list; no
\* backward reads when the forward loop returned
get_matching_voices_scan(target, sorted_voices, tuning_tolerance) ==
    LET lowest == PcSub(target, PitchClassFromDistance(tuning_tolerance))
        found == partition_point(
                     [i \in DOMAIN sorted_voices |->
                         sorted_voices[i].pitch_class], lowest)
        start_idx == IF found = Len(sorted_voices) THEN 0 ELSE found
        forwards == ForwardScan(target, sorted_voices, tuning_tolerance,
                                start_idx, start_idx, << >>)
    IN  [start_idx |-> start_idx,
         forwards |-> forwards,
         backwards |->
             IF forwards.returned \/ ~forwards.stopped
                 THEN [read |-> << >>, stopped |-> forwards.stopped]
                 ELSE BackwardScan(target, sorted_voices, tuning_tolerance,
                                   start_idx, << >>)]

\* at most this many voices in a list
MaxVoices == 3

\* voices on both sides of the 0/octave boundary and half an octave away,
\* two of them twice (a second channel)
VoiceSamples ==
    { Voice(0, pc) : pc \in { 0, 3, 5, 600000000, OCTAVE_MICROCENTS - 4,
                              OCTAVE_MICROCENTS - 1 } }
    \cup { Voice(1, 3), Voice(1, OCTAVE_MICROCENTS - 1) }

\* get_sorted_voices: sort_unstable_by pitch class
IsSortedByPitchClass(s) ==
    \A i \in 1 .. Len(s) - 1 : s[i].pitch_class <= s[i + 1].pitch_class

SortedVoiceLists ==
    { s \in UNION { [1 .. n -> VoiceSamples] : n \in 0 .. MaxVoices } :
        IsSortedByPitchClass(s) }

TargetSamples ==
    { 0, 3, 4, 600000000, OCTAVE_MICROCENTS - 2, OCTAVE_MICROCENTS - 1 }

\* PitchClassDistance values: 0 .. half an octave
ToleranceSamples == { 0, 1, 4, 5, 600000000 }

MatchingVoicesInputs ==
    [op : { "get_matching_voices" }, pitch_class : TargetSamples,
     sorted_voices : SortedVoiceLists, tuning_tolerance : ToleranceSamples]

FnGetMatchingVoices ==
    /\ Due("get_matching_voices")
    /\ Returned([matching_voices |->
                     get_matching_voices(fin.pitch_class, fin.sorted_voices,
                                         fin.tuning_tolerance),
                 scan |->
                     IF Len(fin.sorted_voices) = 0 THEN None
                     ELSE get_matching_voices_scan(fin.pitch_class,
                              fin.sorted_voices, fin.tuning_tolerance)])

(* ---- pitch_class_matches_any_in_sorted_vec, has_matching_pitch_class ---- *)

\* the check without the step back to the first element when no element
\* is at or above the lowest pitch class that could match
matches_candidate_only(target, sorted_pitch_classes, tuning_tolerance) ==
    IF Len(sorted_pitch_classes) = 0 THEN FALSE
    ELSE LET candidate_idx ==
                 partition_point(sorted_pitch_classes,
                     PcSub(target, PitchClassFromDistance(tuning_tolerance)))
         IN  IF candidate_idx = Len(sorted_pitch_classes) THEN FALSE
             ELSE distance_to(sorted_pitch_classes[candidate_idx + 1], target)
                      <= tuning_tolerance

\* tuning.rs
pitch_class_matches_any_in_sorted_vec(target, sorted_pitch_classes, tuning_tolerance) ==
    IF Len(sorted_pitch_classes) = 0 THEN FALSE
    ELSE LET candidate_idx ==
                 partition_point(sorted_pitch_classes,
                     PcSub(target, PitchClassFromDistance(tuning_tolerance)))
         IN  IF candidate_idx = Len(sorted_pitch_classes)
                 THEN distance_to(sorted_pitch_classes[1], target)
                          <= tuning_tolerance
                 ELSE distance_to(sorted_pitch_classes[candidate_idx + 1],
                                  target) <= tuning_tolerance

\* grid.rs
has_matching_pitch_class(target, sorted_pitch_classes, tuning_tolerance) ==
    IF Len(sorted_pitch_classes) = 0 THEN FALSE
    ELSE LET candidate_idx ==
                 partition_point(sorted_pitch_classes,
                     PcSub(target, PitchClassFromDistance(tuning_tolerance)))
         IN  IF candidate_idx = Len(sorted_pitch_classes)
                 THEN distance_to(sorted_pitch_classes[1], target)
                          <= tuning_tolerance
                 ELSE distance_to(sorted_pitch_classes[candidate_idx + 1],
                                  target) <= tuning_tolerance

\* ascending lists of pitch classes (repetitions included)
SortedPitchClassLists ==
    { s \in UNION { [1 .. n -> { v.pitch_class : v \in VoiceSamples }] :
                      n \in 0 .. MaxVoices } :
        \A i \in 1 .. Len(s) - 1 : s[i] <= s[i + 1] }

MatchesAnyInputs ==
    [op : { "has_matching_pitch_class" }, pitch_class : TargetSamples,
     sorted_pitch_classes : SortedPitchClassLists,
     tuning_tolerance : ToleranceSamples]

FnHasMatchingPitchClass ==
    /\ Due("has_matching_pitch_class")
    /\ Returned([in_sorted_vec |->
                     pitch_class_matches_any_in_sorted_vec(fin.pitch_class,
                         fin.sorted_pitch_classes, fin.tuning_tolerance),
                 has_matching |->
                     has_matching_pitch_class(fin.pitch_class,
                         fin.sorted_pitch_classes, fin.tuning_tolerance)])

(* ---- tuning_learn_button.rs: learn_c_tuning ---- *)

\* An f32 result is kept as m * 2^-j with m odd or j = 0, so that equal
\* values are equal records.
RECURSIVE CanonF32(_)
CanonF32(v) ==
    IF v.j > 0 /\ v.m % 2 = 0 THEN CanonF32([m |-> v.m \div 2, j |-> v.j - 1])
    ELSE v

\* the f32 nearest to (m + r/d) * 2^-j (ties to even), 0 <= r < d: the
\* quotient is developed bit by bit until m has 24 bits
RECURSIVE QuotientF32(_, _, _, _)
QuotientF32(m, r, d, j) ==
    IF r = 0 THEN [m |-> m, j |-> j]
    ELSE IF m >= 8388608
        THEN [m |-> IF 2 * r > d \/ (2 * r = d /\ m % 2 = 1) THEN m + 1 ELSE m,
              j |-> j]
        ELSE QuotientF32(2 * m + (IF 2 * r >= d THEN 1 ELSE 0), (2 * r) % d,
                         d, j + 1)

\* PitchClassDistance::from_microcents
DistanceFromMicrocents(microcents) ==
    LET modded_microcents  == microcents % OCTAVE_MICROCENTS
        flipped_microcents == OCTAVE_MICROCENTS - modded_microcents
    IN  IF modded_microcents < flipped_microcents
            THEN modded_microcents ELSE flipped_microcents

\* PitchClassDistance::from_cents
DistanceFromCents(cents) == DistanceFromMicrocents(cents * CENTS_TO_MICROCENTS)

\* PitchClass::to_cents_f32: self.0 as f32 / CENTS_TO_MICROCENTS_F32
to_cents_f32(self) ==
    LET n == RoundF32(self)
    IN  CanonF32(QuotientF32(n \div CENTS_TO_MICROCENTS,
                             n % CENTS_TO_MICROCENTS, CENTS_TO_MICROCENTS, 0))

DEFAULT_C == 0
TUNE_C_TOLERANCE == DistanceFromMicrocents(50 * CENTS_TO_MICROCENTS)

\* the three events of one parameter update
ParamEvents(param, value) ==
    << [event |-> "BeginSetParameter", param |-> param],
       [event |-> "SetParameter", param |-> param, value |-> value],
       [event |-> "EndSetParameter", param |-> param] >>

\* the loop of learn_c_tuning from the element at position i (1-based) on
RECURSIVE BestCFrom(_, _, _)
BestCFrom(sorted_pitch_classes, i, best_c) ==
    IF i > Len(sorted_pitch_classes) THEN best_c
    ELSE LET pc == sorted_pitch_classes[i]
             kept ==
                 IF distance_to(pc, DEFAULT_C) <= TUNE_C_TOLERANCE
                     THEN IF best_c = None THEN Some(pc)
                          ELSE IF distance_to(best_c[1], DEFAULT_C)
                                      < distance_to(pc, DEFAULT_C)
                              THEN best_c
                              ELSE Some(pc)
                     ELSE best_c
         IN  BestCFrom(sorted_pitch_classes, i + 1, kept)

\* c_cents > 600.0 ? c_cents - 1200.0 : c_cents; the difference is exact
zero_centered_c_cents(c_cents) ==
    IF c_cents.j <= 14 /\ c_cents.m > 600 * Pow2(c_cents.j)
        THEN CanonF32([m |-> c_cents.m - 1200 * Pow2(c_cents.j),
                       j |-> c_cents.j])
        ELSE c_cents

\* learn_c_tuning keeping the first pitch class within the tolerance
learn_c_tuning_first(sorted_pitch_classes) ==
    LET within == { i \in DOMAIN sorted_pitch_classes :
                      distance_to(sorted_pitch_classes[i], DEFAULT_C)
                          <= TUNE_C_TOLERANCE }
        first  == CHOOSE i \in within : \A k \in within : i <= k
    IN  IF within = { } THEN [best_c |-> None, events |-> << >>]
        ELSE [best_c |-> Some(sorted_pitch_classes[first]),
              events |-> ParamEvents("c_offset",
                  zero_centered_c_cents(
                      to_cents_f32(sorted_pitch_classes[first])))]

\* learn_c_tuning: the pitch class kept and the events emitted
learn_c_tuning(sorted_pitch_classes) ==
    LET best_c == BestCFrom(sorted_pitch_classes, 1, None)
    IN  [best_c |-> best_c,
         events |-> IF best_c = None THEN << >>
                    ELSE ParamEvents("c_offset",
                             zero_centered_c_cents(to_cents_f32(best_c[1])))]

\* pitch classes around C (0, +-10, +-30, +-50 cents and one microcent
\* further), 100 and 130 cents, and half an octave
LearnCSamples ==
    { 0, 10000000, 30000000, 50000000, 50000001, 100000000, 130000000,
      600000000, 1149999999, 1150000000, 1170000000, 1190000000 }

MaxSounding == 3

\* pitch_classes.sort_unstable(); pitch_classes.dedup()
SortedDistinct(values, n) ==
    { s \in UNION { [1 .. k -> values] : k \in 0 .. n } :
        \A i \in 1 .. Len(s) - 1 : s[i] < s[i + 1] }

\* the C offset in force, f32 in 2^-16 cents: 0, 100 cents, -30 cents
COffsetSamples == { 0, 6553600, -1966080 }

LearnCInputs ==
    [op : { "learn_c_tuning" }, c_offset : COffsetSamples,
     sorted_pitch_classes : SortedDistinct(LearnCSamples, MaxSounding)]

FnLearnCTuning ==
    /\ Due("learn_c_tuning")
    /\ Returned(learn_c_tuning(fin.sorted_pitch_classes))

(* ---- tuning_learn_button.rs: learn_intervals_tuning ---- *)

THREE_JUST == 701955001
FIVE_JUST  == 386313714
SEVEN_JUST == 968825906

LEARN_RANGE == DistanceFromCents(40)

\* the closure without the comparison to the tuning kept so far
update_best_tuning_latest(best, interval, target) ==
    IF distance_to(interval, target) <= LEARN_RANGE THEN Some(interval)
    ELSE best

\* the closure update_best_tuning: the new value of *best
update_best_tuning(best, interval, target) ==
    LET diff == distance_to(interval, target)
    IN  IF diff <= LEARN_RANGE
            THEN IF best # None
                     THEN IF diff < distance_to(best[1], target)
                              THEN Some(interval) ELSE best
                     ELSE Some(interval)
            ELSE best

\* the body of the inner loop for the pair pc_a, pc_b
LearnFromPair(bests, pc_a, pc_b) ==
    LET interval         == PcSub(pc_a, pc_b)
        flipped_interval == PcNeg(interval)
        three1 == update_best_tuning(bests.three, interval, THREE_JUST)
        five1  == update_best_tuning(bests.five, interval, FIVE_JUST)
        seven1 == update_best_tuning(bests.seven, interval, SEVEN_JUST)
    IN  [three |-> update_best_tuning(three1, flipped_interval, THREE_JUST),
         five  |-> update_best_tuning(five1, flipped_interval, FIVE_JUST),
         seven |-> update_best_tuning(seven1, flipped_interval, SEVEN_JUST)]

\* the two loops: i over the list, j over the elements after i (1-based)
RECURSIVE LearnFromPairs(_, _, _, _)
LearnFromPairs(sorted_pitch_classes, i, j, bests) ==
    IF i > Len(sorted_pitch_classes) THEN bests
    ELSE IF j > Len(sorted_pitch_classes)
        THEN LearnFromPairs(sorted_pitch_classes, i + 1, i + 2, bests)
        ELSE LearnFromPairs(sorted_pitch_classes, i, j + 1,
                 LearnFromPair(bests, sorted_pitch_classes[i],
                               sorted_pitch_classes[j]))

\* the closure update_tuning_param: the events it emits
update_tuning_param(tuning_param, opt_tuning) ==
    IF opt_tuning # None
        THEN ParamEvents(tuning_param, to_cents_f32(opt_tuning[1]))
        ELSE << >>

\* learn_intervals_tuning emitting only when all three generators are found
learn_intervals_tuning_together(sorted_pitch_classes) ==
    LET bests == LearnFromPairs(sorted_pitch_classes, 1, 2,
                     [three |-> None, five |-> None, seven |-> None])
        found == bests.three # None /\ bests.five # None /\ bests.seven # None
    IN  [bests |-> bests,
         events |-> IF found
                       THEN update_tuning_param("three", bests.three)
                            \o update_tuning_param("five", bests.five)
                            \o update_tuning_param("seven", bests.seven)
                       ELSE << >>]

\* learn_intervals_tuning: the tunings kept and the events emitted
learn_intervals_tuning(sorted_pitch_classes) ==
    LET bests == LearnFromPairs(sorted_pitch_classes, 1, 2,
                     [three |-> None, five |-> None, seven |-> None])
    IN  [bests |-> bests,
         events |-> update_tuning_param("three", bests.three)
                    \o update_tuning_param("five", bests.five)
                    \o update_tuning_param("seven", bests.seven)]

\* pitch classes a just or tempered fifth, third or seventh apart, a fourth
\* above 0, a fifth widened by 40 cents and by one microcent more, two
\* semitones
LearnIntervalSamples ==
    { 0, 100000000, 386313714, 400000000, 498044999, 700000000, 701955001,
      741955001, 741955002, 968825906, 1100000000 }

LearnIntervalsInputs ==
    [op : { "learn_intervals_tuning" },
     sorted_pitch_classes : SortedDistinct(LearnIntervalSamples, MaxSounding)]

FnLearnIntervalsTuning ==
    /\ Due("learn_intervals_tuning")
    /\ Returned(learn_intervals_tuning(fin.sorted_pitch_classes))

(* ---- grid.rs: draw_tuning_cents ---- *)

\* PitchClass::get_decimal_digit_num
get_decimal_digit_num(self, num) ==
    IF num > 5 THEN 0
    ELSE LET raised == Pow10(6 - num)
         IN  (self % raised) \div (raised \div 10)

\* PitchClass::trunc_cents
trunc_cents(self) == self \div CENTS_TO_MICROCENTS

\* u8 / u32 Display
DigitText(n) == to_string(n)

\* The strings draw_tuning_cents hands to canvas.fill_text, in order: whole
\* part and ".dd" apart on a node with the z-negative corner, else one string
draw_tuning_cents(pc, draw_z_neg) ==
    LET rounded_pitch_class == round(pc, 2)
        fraction == DigitText(get_decimal_digit_num(rounded_pitch_class, 0))
                    \o DigitText(get_decimal_digit_num(rounded_pitch_class, 1))
    IN  IF draw_z_neg
            THEN << to_string(trunc_cents(pc)), << "." >> \o fraction >>
            ELSE << to_string(trunc_cents(pc)) \o << "." >> \o fraction >>

\* pitch classes at, just below and just above the half hundredths next to a
\* whole cent, to the octave and elsewhere
CentsTextSamples ==
    { 0, 4999, 5000, 500000, 99994999, 99995000, 100000000, 386313714,
      701955001, 1199994999, 1199995000, OCTAVE_MICROCENTS - 1 }

CentsTextInputs ==
    [op : { "draw_tuning_cents" }, pitch_class : CentsTextSamples,
     draw_z_neg : BOOLEAN]

FnDrawTuningCents ==
    /\ Due("draw_tuning_cents")
    /\ Returned([texts |-> draw_tuning_cents(fin.pitch_class, fin.draw_z_neg)])

FnInputs ==
    MultiplyTwiceInputs
    \cup PitchClassSumInputs
    \cup FromCentsInputs
    \cup DrawNodeInputs
    \cup RoundInputs
    \cup NoteNameInputs
    \cup CommaStrInputs
    \cup MatchingVoicesInputs
    \cup MatchesAnyInputs
    \cup LearnCInputs
    \cup LearnIntervalsInputs
    \cup CentsTextInputs

NextFn ==
    \/ FnMultiplyTwice
    \/ FnPitchClassSum
    \/ FnFromCentsF32
    \/ FnDrawNodeArgsNew
    \/ FnRound
    \/ FnNoteNameInfo
    \/ FnCommaStr
    \/ FnGetMatchingVoices
    \/ FnHasMatchingPitchClass
    \/ FnLearnCTuning
    \/ FnLearnIntervalsTuning
    \/ FnDrawTuningCents

InitFnSamples ==
    /\ InitProgram
    /\ InitHistory
    /\ pa = 0 /\ pb = 0 /\ pn = 0 /\ pr = 0 /\ pop = "none"
    /\ fop = "none"
    /\ fin \in FnInputs
    /\ fout = << >>

SpecFn == InitFnSamples /\ [][NextFn]_vars

\* C12: for every pitch class p and all i32 m, n whose product is an i32,
\* p.multiply(m).multiply(n) equals p.multiply(m * n).
C12_MultiplyComposes ==
    fop = "multiply_twice" =>
        /\ fout.twice # None
        /\ fout.once # None
        /\ fout.twice = fout.once

\* C13: for every tuning and all prime-count vectors v1, v2 whose sum is a
\* prime-count vector, pitch_class(v1 + v2) equals
\* pitch_class(v1) + pitch_class(v2) under modulo-octave addition.
C13_PitchClassIsAdditive ==
    fop = "pitch_class_sum" =>
        /\ fout.sum # None
        /\ fout.parts # None
        /\ fout.sum = fout.parts

\* round-half-away-from-zero((c mod 1200) * 10^6), modulo the octave, for
\* c in 2^-16 cents, in exact arithmetic
QuantizedCents(c) ==
    LET r  == c % (1200 * F32_UNITS_PER_CENT)
        hi == r \div 1024
        lo == r % 1024
        A  == hi * 15625 + (lo * 15625) \div 1024
        B  == (lo * 15625) % 1024
    IN  (IF B >= 512 THEN A + 1 ELSE A) % OCTAVE_MICROCENTS

\* C15: for every cents input c, negative ones and ones just below a
\* multiple of 1200 included, from_cents_f32(c) is
\* round-half-away-from-zero((c mod 1200) * 10^6) and lies in [0, octave):
\* a value that quantizes to a full octave becomes 0.
C15_FromCentsQuantizesWithinOctave ==
    fop = "from_cents_f32" =>
        /\ fout.pitch_class \in 0 .. OCTAVE_MICROCENTS - 1
        /\ fout.pitch_class = QuantizedCents(fin.cents)

\* C14: the pitch class of a lattice node is three.multiply(threes) +
\* five.multiply(fives) + seven.multiply(sevens) + the reference offset of
\* the tuning (its C offset), so that changing the offset by d moves every
\* node by d.
C14_NodePitchIncludesReferenceOffset ==
    fop = "DrawNodeArgs_new" =>
        LET p == fin.tuning_params
            v == fin.primes
            generators ==
                PcAdd(PcAdd(multiply(from_cents_f32(p.three), v.threes),
                            multiply(from_cents_f32(p.five), v.fives)),
                      multiply(from_cents_f32(p.seven), v.sevens))
        IN  fout.pitch_class =
                Some(PcAdd(generators, from_cents_f32(p.c_offset)))

\* the multiple of step nearest to p (halves up), modulo the octave
NearestMultiple(p, step) ==
    (((p + step \div 2) \div step) * step) % OCTAVE_MICROCENTS

\* C16: for every pitch class p and d in 0..=6, p.round(d) is the multiple
\* of 10^(6-d) microcents nearest to p (halves up), reduced modulo the
\* octave; p.round(6) is p.
C16_RoundIsNearestMultiple ==
    (fop = "round" /\ fin.decimal_digits <= 6) =>
        /\ fout.pitch_class = NearestMultiple(fin.p, Pow10(6 - fin.decimal_digits))
        /\ fin.decimal_digits = 6 => fout.pitch_class = fin.p

\* idx = 1 + threes + 4 * fives - 2 * sevens as 7 * q + r with 0 <= r < 7,
\* from the quotients and remainders of the components
LetterIndex(v) ==
    LET r == 1 + (v.threes % 7) + 4 * (v.fives % 7) - 2 * (v.sevens % 7)
    IN  [q |-> (v.threes \div 7) + 4 * (v.fives \div 7)
                   - 2 * (v.sevens \div 7) + (r \div 7),
         r |-> r % 7]

\* C17: for every prime-count vector, with idx = 1 + threes + 4 * fives -
\* 2 * sevens, note_name_info returns the letter at position idx mod 7 of
\* F,C,G,D,A,E,B, sharps_or_flats = floor(idx / 7) and syntonic_commas =
\* -fives; (0,0,0) is C with no accidental.
C17_NoteNameFromLetterIndex ==
    fop = "note_name_info" =>
        /\ fout.info # None
        /\ LET info == fout.info[1]
               idx  == LetterIndex(fin.primes)
           IN  /\ info.letter_name = NOTE_NAMES[idx.r + 1]
               /\ info.sharps_or_flats = idx.q
               /\ fin.primes.fives # I32_MIN
               /\ info.syntonic_commas = -fin.primes.fives
               /\ fin.primes = PrimeCountVector(0, 0, 0) =>
                    /\ info.letter_name = "C"
                    /\ info.sharps_or_flats = 0
                    /\ info.syntonic_commas = 0

\* the accidental string of the convention for a count n
AccidentalString(n, pos_char, neg_char) ==
    LET sym == IF n > 0 THEN pos_char ELSE neg_char
        a   == IF n > -100 /\ n < 0 THEN -n ELSE n
    IN  IF n = 0 THEN << >>
        ELSE IF n >= 100 \/ n <= -100 THEN << sym, "?" >>
        ELSE IF a = 1 THEN << sym >>
        ELSE IF a = 2 THEN << sym, sym >>
        ELSE IF a < 10 THEN << sym, DigitChars[a + 1] >>
        ELSE << sym, DigitChars[(a \div 10) + 1], DigitChars[(a % 10) + 1] >>

Occurrences(s, v) == Cardinality({ i \in DOMAIN s : s[i] = v })

\* C19: for every target T, tolerance D in [0, octave/2] and list of voices
\* sorted ascending by pitch class (the empty list included),
\* get_matching_voices returns each voice at distance <= D from T exactly
\* once and no other voice, also across the 0/octave boundary and with
\* several voices on one pitch class.
C19_MatchingVoicesExactlyOnce ==
    fop = "get_matching_voices" =>
        \A v \in VoiceSamples :
            Occurrences(fout.matching_voices, v) =
                IF distance_to(v.pitch_class, fin.pitch_class)
                       <= fin.tuning_tolerance
                    THEN Occurrences(fin.sorted_voices, v)
                    ELSE 0

\* two voices on one pitch class below the boundary and one above it have
\* been returned, a fourth voice has not
C19_Witness ==
    /\ fop = "get_matching_voices"
    /\ fin.pitch_class = OCTAVE_MICROCENTS - 1
    /\ fin.tuning_tolerance = 1
    /\ Len(fin.sorted_voices) = MaxVoices
    /\ fin.sorted_voices[1].pitch_class = 0
    /\ fin.sorted_voices[2].pitch_class = OCTAVE_MICROCENTS - 4
    /\ fin.sorted_voices[MaxVoices].pitch_class = OCTAVE_MICROCENTS - 1
    /\ Len(fout.matching_voices) = MaxVoices - 1

\* some element of the list is within the tolerance of the target
SomeElementWithin(target, pcs, tolerance) ==
    \E i \in DOMAIN pcs :
        distance_to(pcs[i], target) <= tolerance

\* C20: for every pitch class T, tolerance D and ascending list of pitch
\* classes, pitch_class_matches_any_in_sorted_vec and
\* has_matching_pitch_class return true exactly when some element of the
\* list is at distance <= D from T, across the 0/octave boundary too.
C20_SingleCandidateFindsAnyMatch ==
    fop = "has_matching_pitch_class" =>
        LET some == SomeElementWithin(fin.pitch_class,
                        fin.sorted_pitch_classes, fin.tuning_tolerance)
        IN  /\ fout.in_sorted_vec = some
            /\ fout.has_matching = some

\* the only match is the first element, found from a target just below the
\* octave, with larger elements after it
C20_Witness ==
    /\ fop = "has_matching_pitch_class"
    /\ fin.pitch_class = OCTAVE_MICROCENTS - 1
    /\ fin.tuning_tolerance = 1
    /\ Len(fin.sorted_pitch_classes) = MaxVoices
    /\ fin.sorted_pitch_classes[1] = 0
    /\ fin.sorted_pitch_classes[2] = 5
    /\ fin.sorted_pitch_classes[MaxVoices] = OCTAVE_MICROCENTS - 4
    /\ fout.in_sorted_vec
    /\ fout.has_matching

\* learning the reference pitch about the pitch class ref: the pitch class
\* kept is one of the sounding ones within the capture window of ref and
\* none is closer to ref; with none in the window nothing is emitted
LearnsClosestTo(ref) ==
    LET sounding == { fin.sorted_pitch_classes[i] :
                        i \in DOMAIN fin.sorted_pitch_classes }
        captured == { pc \in sounding :
                        distance_to(pc, ref) <= TUNE_C_TOLERANCE }
    IN  IF captured = { }
            THEN fout.best_c = None /\ fout.events = << >>
            ELSE /\ fout.best_c # None
                 /\ fout.best_c[1] \in captured
                 /\ \A pc \in captured :
                        distance_to(fout.best_c[1], ref) <= distance_to(pc, ref)
                 /\ fout.events =
                        ParamEvents("c_offset",
                            zero_centered_c_cents(to_cents_f32(fout.best_c[1])))

\* C21 as stated: reference-pitch learning selects the sounding pitch class
\* closest to the reference pitch class in force (the C offset), if within
\* the capture window of it, and emits nothing when none is.
C21_LearnsClosestToCurrentReference ==
    fop = "learn_c_tuning" => LearnsClosestTo(from_cents_f32(fin.c_offset))

\* C21 amended: reference-pitch learning selects the sounding pitch class
\* closest to DEFAULT_C (pitch class 0), if within 50 cents of it, whatever
\* the C offset in force, and emits nothing when none is.
C21_LearnsClosestToDefaultC ==
    fop = "learn_c_tuning" => LearnsClosestTo(DEFAULT_C)

\* with a C offset of 100 cents in force, of 30 cents above and 10 cents
\* below C and a third pitch class the one 10 cents below has been learned
C21_Witness ==
    /\ fop = "learn_c_tuning"
    /\ fin.c_offset = 6553600
    /\ fin.sorted_pitch_classes = << 30000000, 100000000, 1190000000 >>
    /\ fout.best_c = Some(1190000000)
    /\ Len(fout.events) = 3

\* the intervals a - b and b - a of all pairs of the sounding pitch classes
CandidateIntervals ==
    LET s == fin.sorted_pitch_classes
    IN  { AddModOctave(OCTAVE_MICROCENTS - s[q[2]], s[q[1]]) :
            q \in { p \in (DOMAIN s) \X (DOMAIN s) : p[1] # p[2] } }

\* the candidates within the capture window of a target
Captured(target) ==
    { c \in CandidateIntervals : distance_to(c, target) <= LEARN_RANGE }

\* the value of the SetParameter events for a parameter
UpdatesOf(param) ==
    { fout.events[i].value :
        i \in { k \in DOMAIN fout.events :
                  /\ fout.events[k].event = "SetParameter"
                  /\ fout.events[k].param = param } }

\* the f32 nearest to a count of microcents taken as cents
NearestCentsF32(microcents) ==
    CanonF32(QuotientF32(microcents \div CENTS_TO_MICROCENTS,
                         microcents % CENTS_TO_MICROCENTS,
                         CENTS_TO_MICROCENTS, 0))

\* the value learned for a generator is a captured candidate and none is
\* closer to the target; the update carries it in cents
LearnedIsClosest(best, param, target) ==
    best # None =>
        /\ best[1] \in Captured(target)
        /\ \A c \in Captured(target) :
               distance_to(best[1], target) <= distance_to(c, target)
        /\ UpdatesOf(param) = { to_cents_f32(best[1]) }

\* C22: for each generator the value learned from distinct sounding pitch
\* classes is an interval a - b or b - a within 40 cents of the generator's
\* just target and closest to it over both directions of all pairs; two
\* voices a just fifth (701.955001 cents) apart give that interval as the
\* update of the fifth.
C22_LearnedIntervalIsClosest ==
    fop = "learn_intervals_tuning" =>
        /\ LearnedIsClosest(fout.bests.three, "three", THREE_JUST)
        /\ LearnedIsClosest(fout.bests.five, "five", FIVE_JUST)
        /\ LearnedIsClosest(fout.bests.seven, "seven", SEVEN_JUST)
        /\ fin.sorted_pitch_classes = << 0, THREE_JUST >> =>
               /\ fout.bests.three = Some(THREE_JUST)
               /\ UpdatesOf("three") = { NearestCentsF32(THREE_JUST) }

\* a tempered and a just fifth were both sounding above 0 and the just one
\* has been learned
C22_Witness ==
    /\ fop = "learn_intervals_tuning"
    /\ fin.sorted_pitch_classes = << 0, 700000000, THREE_JUST >>
    /\ fout.bests.three = Some(THREE_JUST)
    /\ UpdatesOf("three") # { }

\* C23: a learn pass emits the update of a generator if and only if some
\* candidate interval is within that generator's capture window, whatever
\* the other two generators receive; fewer than two distinct pitch classes
\* change no generator.
C23_UpdateIffCandidateCaptured ==
    fop = "learn_intervals_tuning" =>
        /\ \A g \in { [param |-> "three", target |-> THREE_JUST],
                      [param |-> "five", target |-> FIVE_JUST],
                      [param |-> "seven", target |-> SEVEN_JUST] } :
               LET mine == SelectSeq(fout.events,
                               LAMBDA e : e.param = g.param)
               IN  IF Captured(g.target) = { } THEN mine = << >>
                   ELSE /\ Len(mine) = 3
                        /\ mine[1].event = "BeginSetParameter"
                        /\ mine[2].event = "SetParameter"
                        /\ mine[3].event = "EndSetParameter"
        /\ Len(fin.sorted_pitch_classes) < 2 => fout.events = << >>

\* the fifth has been updated and neither the third nor the seventh
C23_Witness ==
    /\ fop = "learn_intervals_tuning"
    /\ Len(fin.sorted_pitch_classes) = 2
    /\ UpdatesOf("three") # { }
    /\ UpdatesOf("five") = { }
    /\ UpdatesOf("seven") = { }
    /\ Len(fout.events) = 3


\* the voices read at the 0-based indices idxs
VoicesAt(sorted_voices, idxs) ==
    [k \in DOMAIN idxs |-> sorted_voices[idxs[k] + 1]]

\* all but the last element
Front(s) == SubSeq(s, 1, Len(s) - 1)

\* The scans of a call on a non-empty list end and read inside the list:
\* the forward scan ends at its first non-match or on coming back to the
\* start index, the backward scan ends at a non-match after at most
\* max_backward reads, and the voices read and matched are the result.
ScansStop(max_backward) ==
    LET list == fin.sorted_voices
        matches(i) == distance_to(list[i + 1].pitch_class, fin.pitch_class)
                          <= fin.tuning_tolerance
        fw == fout.scan.forwards
        bw == fout.scan.backwards
        last_fw == fw.read[Len(fw.read)]
        last_bw == bw.read[Len(bw.read)]
    IN  /\ fw.stopped
        /\ bw.stopped
        /\ \A k \in DOMAIN fw.read : InBounds(list, fw.read[k])
        /\ \A k \in DOMAIN bw.read : InBounds(list, bw.read[k])
        /\ fw.read[1] = fout.scan.start_idx
        /\ Len(fw.read) <= Len(list)
        /\ \A k \in 1 .. Len(fw.read) - 1 : matches(fw.read[k])
        /\ IF fw.returned
               THEN /\ matches(last_fw)
                    /\ forward_index(last_fw, Len(list))
                           = fout.scan.start_idx
                    /\ bw.read = << >>
                    /\ fout.matching_voices = VoicesAt(list, fw.read)
               ELSE /\ ~matches(last_fw)
                    /\ Len(bw.read) >= 1
                    /\ Len(bw.read) <= max_backward
                    /\ \A k \in 1 .. Len(bw.read) - 1 : matches(bw.read[k])
                    /\ ~matches(last_bw)
                    /\ fout.matching_voices =
                           VoicesAt(list, Front(fw.read))
                               \o VoicesAt(list, Front(bw.read))

\* C24 as stated: get_matching_voices terminates on every non-empty sorted
\* list; the forward scan stops at the first non-match or on returning to
\* the start index, and the backward scan reaches a non-matching voice after
\* at most (list length - 1) steps without indexing outside the list.
C24_BackwardStopsWithinLenMinusOne ==
    (fop = "get_matching_voices" /\ Len(fin.sorted_voices) > 0) =>
        ScansStop(Len(fin.sorted_voices) - 1)

\* C24: get_matching_voices terminates on every non-empty sorted list
\* without indexing outside it; the forward scan stops at the first non-match
\* or on returning to the start index, and the backward scan stops at its
\* first step, on a non-matching voice (for a one-voice list that is the
\* start voice itself, one step where list length - 1 is zero).
C24_BackwardStopsAtFirstStep ==
    (fop = "get_matching_voices" /\ Len(fin.sorted_voices) > 0) =>
        ScansStop(1)

\* the forward scan wrapped from the last voice to the first, stopped at a
\* non-match, and the backward scan ran
C24_Witness ==
    /\ fop = "get_matching_voices"
    /\ Len(fin.sorted_voices) = MaxVoices
    /\ ~fout.scan.forwards.returned
    /\ Len(fout.scan.forwards.read) = MaxVoices
    /\ fout.scan.forwards.read[1] = MaxVoices - 1
    /\ fout.scan.forwards.read[2] = 0
    /\ Len(fout.scan.backwards.read) = 1


PolyTuningEvents == { e \in KeyEvents : e.kind = "PolyTuning" }

\* the voice of key as its note-on stored it
AsNoteOnLeftIt(voice) ==
    from_midi_data(voice.voice_id, voice.channel, voice.note)

\* C25: a PolyTuning for a present key sets the voice's pitch to note + offset
\* and its pitch class to pitch_class(note) + pitch_class(offset), from the
\* base note and not from the previous tuning: a retune o1 before it changes
\* nothing in the outcome, offset 0 gives the note-on state, and no other
\* voice and neither key, channel, note nor voice id of the voice changes.
C25_RetuneIsFromBaseNote ==
    [][ \A e \in PolyTuningEvents :
            (contains_key(voices, VoiceKey(e)) /\ Update(e))
                => LET key == VoiceKey(e)
                       old == voices.v[key][1]
                       new == voices'.v[key][1]
                   IN  /\ contains_key(voices', key)
                       /\ new.pitch = 4 * key.note + e.tuning
                       /\ new.pitch_class =
                              AddModOctave(
                                  from_midi_note(key.note),
                                  from_midi_note_offset_f32(e.tuning))
                       /\ new.channel = key.channel /\ new.note = key.note
                       /\ new.voice_id = old.voice_id
                       /\ e.tuning = 0 => new = AsNoteOnLeftIt(old)
                       /\ \A o1 \in Tunings :
                              update_midi_voices(
                                  update_midi_voices(
                                      voices, PolyTuning(key, o1)).voices,
                                  e).voices = voices'
                       /\ voices'.bg = voices.bg
                       /\ \A k \in Keys \ { key } : voices'.v[k] = voices.v[k]
                       /\ report' = "none"
      ]_vars

\* a retuned voice has been put back by a retune with offset 0 while the
\* other followed voice keeps its own retune
C25_Witness ==
    /\ event.kind = "PolyTuning"
    /\ event.tuning = 0
    /\ contains_key(voices, VoiceKey(event))
    /\ voices.v[VoiceKey(event)][1] =
           AsNoteOnLeftIt(voices.v[VoiceKey(event)][1])
    /\ \E k \in Keys \ { VoiceKey(event) } :
           /\ contains_key(voices, k)
           /\ voices.v[k][1] # AsNoteOnLeftIt(voices.v[k][1])
           /\ voices.v[k][1].pitch_class # from_midi_note(k.note)


\* the buffer of the most recent publish: the back buffer while its dirty
\* bit is set, the output buffer once a call site has taken it
LatestBuffer == IF back_info.dirty THEN back_info.idx ELSE output_idx

\* C26: at the return of every process() call the most recently published
\* snapshot equals the live registry (both empty initially); process()
\* publishes a clone of the registry whenever its batch held at least one
\* event of any kind, and publishes nothing only when the batch was empty,
\* in which case the registry did not change.
C26_PublishedEqualsRegistryAtReturn ==
    /\ [](ppc \in { "idle", "return" } =>
            /\ buffers[LatestBuffer] = voices
            /\ bufVer[LatestBuffer] = pubCount
            /\ published[LatestBuffer] = voices)
    /\ [][ (ppc = "loop" /\ ppc' # "loop") =>
              IF event_counter > 0
                  THEN ppc' = "write"
                  ELSE /\ ppc' = "return"
                       /\ consumed = << >>
                       /\ voices = batchStart
                       /\ voices' = voices
         ]_vars
    /\ [][ ppc = "write" => ppc' \in { "write", "publish" } ]_vars
    /\ [][ (ppc = "publish" /\ ppc' # "publish") =>
              /\ ppc' = "return"
              /\ pubCount' = pubCount + 1
              /\ buffers'[back_info'.idx] = voices
              /\ back_info'.dirty
              /\ voices' = voices
         ]_vars
    /\ [][ pubCount' # pubCount =>
              \/ ppc = "publish" /\ event_counter > 0
              \/ /\ ppc = "idle"
                 /\ BackgroundFill > 0
                 /\ voices' = BackgroundNoteOns(voices, 0, BackgroundFill)
         ]_vars

\* process() is about to return after a full batch that left the registry
\* as it found it, and has published all the same
C26_Witness ==
    /\ ppc = "return"
    /\ event_counter = MaxBatch
    /\ pubCount >= 2
    /\ back_info.dirty
    /\ buffers[back_info.idx] = voices
    /\ voices # EmptyVoices
    /\ \E b \in BufferIdx :
           /\ bufVer[b] = pubCount - 1
           /\ published[b] = voices


\* C27: snapshots are observed in publication order: once a read has returned
\* the snapshot of publish number i (gotVer), no later read by any call site
\* returns the snapshot of an earlier publish, and a published snapshot is
\* never modified after publication: the buffers a call site can reach hold
\* what was published into them.
C27_ReadsFollowPublicationOrder ==
    /\ \A c \in Sites :
           cpc[c] = "read" =>
               /\ bufVer[output_idx] >= gotVer
               /\ ReadComplete(c) => got[c] = published[output_idx]
    /\ gotVer <= pubCount
    /\ buffers[output_idx] = published[output_idx]
    /\ back_info.dirty => buffers[back_info.idx] = published[back_info.idx]
    /\ \A b \in BufferIdx :
           (bufVer[b] > 0 /\ buffers[b] # published[b]) =>
               (b = input_idx /\ ppc \in { "write", "publish" })

\* a call site has collected the snapshot of the second publish after a read
\* returned the first, while process() overwrites the buffer of an earlier
\* publish with its third
C27_Witness ==
    \E c \in Sites :
        /\ ReadComplete(c)
        /\ gotVer = 1
        /\ bufVer[output_idx] = 2
        /\ got[c] = published[output_idx]
        /\ got[c] # voices
        /\ ppc = "write"
        /\ wpos # {}
        /\ pubCount = 2


--------------------------------------------------------------------------
(* SpecLearn: learn passes of the tuning learn button                       *)
(* (tuning_learn_button.rs:131-145) interleaved with process() calls.  The  *)
(* pass is call site LearnSite: lock, read() and collect as every call site, *)
(* then the guard is dropped, the vector sorted and deduplicated and handed *)
(* to learn_c_tuning and to learn_intervals_tuning.                         *)

LearnSite == CHOOSE c \in Sites : \A d \in Sites : c <= d

\* the events a host may hand to one process() call while a pass runs: the
\* second key retuned a tritone up (a fifth above the first key) or a
\* semitone down (the pitch class of the first key)
TunedBatchEvents ==
    LET k1 == [channel |-> 0, note |-> 60]
        k2 == [channel |-> 15, note |-> 61]
    IN  { NoteOn(None, k1), NoteOff(k1), NoteOn(Some(1), k2),
          PolyTuning(k2, 24), PolyTuning(k2, -4) }

\* one whole process() call on a batch of 1 .. MaxBatch of these events:
\* the loop, the clone written into the input buffer and the publish swap.
\* Of all this a call site can observe the swap alone.
ProcessTunedCall ==
    \E after \in { ApplyAll(voices, batch) :
                       batch \in UNION { [1 .. n -> TunedBatchEvents] :
                                             n \in 1 .. MaxBatch } } :
            /\ ppc = "idle"
            /\ pubCount < MaxPublish
            /\ voices' = after
            /\ buffers' = [buffers EXCEPT ![input_idx] = after]
            /\ back_info' = [idx |-> input_idx, dirty |-> TRUE]
            /\ input_idx' = back_info.idx
            /\ wpos' = Slots
            /\ pubCount' = pubCount + 1
            /\ published' = [published EXCEPT ![input_idx] = after]
            /\ bufVer' = [bufVer EXCEPT ![input_idx] = pubCount + 1]
            /\ batchStart' = after
            /\ UNCHANGED <<ppc, event_counter, pending, event, report,
                           output_idx, consumed>>
            /\ UNCHANGED notProducer

\* s without the elements outside keep
RECURSIVE SelectSeqIn(_, _)
SelectSeqIn(s, keep) ==
    IF s = << >> THEN << >>
    ELSE IF Head(s) \in keep THEN << Head(s) >> \o SelectSeqIn(Tail(s), keep)
    ELSE SelectSeqIn(Tail(s), keep)

\* .values().map(|voice| voice.get_pitch_class()).collect() on a registry
get_pitch_classes(r) ==
    LET held == SelectSeqIn(SubSeq(SlotOrder, 1, Cardinality(Keys)), Held(r))
    IN  [i \in DOMAIN held |-> r.v[held[i]][1].pitch_class]
        \o [i \in 1 .. r.bg |-> from_midi_note(BgKey(i - 1).note)]

\* the elements of a set of numbers in increasing order
RECURSIVE SortedSeqOf(_)
SortedSeqOf(values) ==
    IF values = { } THEN << >>
    ELSE LET least == CHOOSE x \in values : \A y \in values : x <= y
         IN  << least >> \o SortedSeqOf(values \ { least })

\* pitch_classes.sort_unstable(); pitch_classes.dedup()
sort_dedup(pcs) == SortedSeqOf({ pcs[i] : i \in DOMAIN pcs })

notLearn == <<progVars, bufVars, chanHist, batchHist, bracketHist, arithVars,
              fnVars, highlightVars>>

\* collect() is complete; std::mem::drop(voices_output)
LearnDrop ==
    /\ cpc[LearnSite] = "read"
    /\ cpos[LearnSite] = Slots
    /\ lock' = 0
    /\ pitch_classes' = get_pitch_classes(got[LearnSite])
    /\ cpc' = [cpc EXCEPT ![LearnSite] = "sort"]
    /\ cpos' = [cpos EXCEPT ![LearnSite] = {}]
    /\ got' = [got EXCEPT ![LearnSite] = EmptyVoices]
    /\ startVer' = [startVer EXCEPT ![LearnSite] = 0]
    /\ gotVer' = bufVer[output_idx]
    /\ UNCHANGED <<emitted, back_info, output_idx>>
    /\ UNCHANGED <<buffers, input_idx, wpos, pubCount, published, bufVer>>
    /\ UNCHANGED <<progVars, batchHist, bracketHist, arithVars, fnVars,
                   highlightVars>>

LearnSort ==
    /\ cpc[LearnSite] = "sort"
    /\ pitch_classes' = sort_dedup(pitch_classes)
    /\ cpc' = [cpc EXCEPT ![LearnSite] = "learn_c"]
    /\ UNCHANGED <<lock, cpos, got, emitted>>
    /\ UNCHANGED notLearn

\* self.learn_c_tuning(cx, &pitch_classes)
LearnC ==
    /\ cpc[LearnSite] = "learn_c"
    /\ emitted' = emitted \o learn_c_tuning(pitch_classes).events
    /\ cpc' = [cpc EXCEPT ![LearnSite] = "learn_intervals"]
    /\ UNCHANGED <<lock, cpos, got, pitch_classes>>
    /\ UNCHANGED notLearn

\* a second heuristic that reads the latest snapshot instead of the vector
LearnIntervalsOfLatest ==
    /\ cpc[LearnSite] = "learn_intervals"
    /\ emitted' = emitted \o
           learn_intervals_tuning(
               sort_dedup(get_pitch_classes(
                   buffers[IF back_info.dirty THEN back_info.idx
                                              ELSE output_idx]))).events
    /\ cpc' = [cpc EXCEPT ![LearnSite] = "done"]
    /\ UNCHANGED <<lock, cpos, got, pitch_classes>>
    /\ UNCHANGED notLearn

\* self.learn_intervals_tuning(cx, &pitch_classes)
LearnIntervals ==
    /\ cpc[LearnSite] = "learn_intervals"
    /\ emitted' = emitted \o learn_intervals_tuning(pitch_classes).events
    /\ cpc' = [cpc EXCEPT ![LearnSite] = "done"]
    /\ UNCHANGED <<lock, cpos, got, pitch_classes>>
    /\ UNCHANGED notLearn

\* learn_tuning returns; its vector goes out of scope
LearnReturn ==
    /\ cpc[LearnSite] = "done"
    /\ cpc' = [cpc EXCEPT ![LearnSite] = "idle"]
    /\ pitch_classes' = << >>
    /\ emitted' = << >>
    /\ UNCHANGED <<lock, cpos, got>>
    /\ UNCHANGED notLearn

NextLearn ==
    \/ ProcessTunedCall
    \/ SiteLock(LearnSite)
    \/ SiteUpdateCheck(LearnSite)
    \/ SiteUpdateSwap(LearnSite)
    \/ SiteReadSlot(LearnSite)
    \/ LearnDrop
    \/ LearnSort
    \/ LearnC
    \/ LearnIntervals
    \/ LearnReturn

SpecLearn == Init /\ [][NextLearn]_vars

\* what a pass on the registry r emits
EventsLearnedFrom(r) ==
    learn_c_tuning(sort_dedup(get_pitch_classes(r))).events
        \o learn_intervals_tuning(sort_dedup(get_pitch_classes(r))).events

\* C28: a learn pass copies the pitch classes out of the snapshot while it
\* holds the voices_output lock, releases the lock before either heuristic
\* runs, and both heuristics use that one copy: what the pass emits is what
\* the snapshot it copied yields, whatever the producer has changed and
\* published since, and the lock is not held while updates are emitted.
C28_LearnUsesOneCopyOutsideLock ==
    LET at == cpc[LearnSite]
        copied == published[output_idx]
    IN  /\ at \in { "check", "swap", "read" } => lock = LearnSite
        /\ at \in { "sort", "learn_c", "learn_intervals", "done" } =>
               /\ lock # LearnSite
               /\ bufVer[output_idx] = gotVer
               /\ buffers[output_idx] = copied
        /\ at = "sort" => pitch_classes = get_pitch_classes(copied)
        /\ at \in { "learn_c", "learn_intervals", "done" } =>
               pitch_classes = sort_dedup(get_pitch_classes(copied))
        /\ at = "learn_c" => emitted = << >>
        /\ at = "learn_intervals" =>
               emitted = learn_c_tuning(pitch_classes).events
        /\ at = "done" => emitted = EventsLearnedFrom(copied)
        /\ emitted # << >> => lock # LearnSite

\* a pass has emitted the C offset and the fifth it learned from its copy
\* although the producer has since published a registry that yields neither
C28_Witness ==
    /\ cpc[LearnSite] = "done"
    /\ Len(pitch_classes) = 2
    /\ Len(emitted) = 6
    /\ emitted[2].param = "c_offset"
    /\ emitted[5].param = "three"
    /\ pubCount > gotVer
    /\ ppc = "idle"
    /\ voices # published[output_idx]
    /\ EventsLearnedFrom(voices) = << >>

\* the strings of a sequence one after the other
RECURSIVE Concat(_)
Concat(strs) == IF strs = << >> THEN << >> ELSE Head(strs) \o Concat(Tail(strs))

\* pc in hundredths of a cent, to the nearest (halves up), within the octave
RoundedHundredths(pc) ==
    ((pc + 5000) \div 10000) % (OCTAVE_MICROCENTS \div 10000)

\* "w.dd" for a count of hundredths
HundredthsText(h) ==
    to_string(h \div 100) \o << "." >>
        \o to_string((h \div 10) % 10) \o to_string(h % 10)

\* C29: the cents text drawn for a node equals its pitch class rounded to two
\* decimal places: whole part and fraction come from the same rounded value,
\* so a pitch class that rounds up across a whole cent shows the incremented
\* whole part and one that rounds up to the octave shows 0.00.
C29_CentsTextIsRoundedValue ==
    fop = "draw_tuning_cents" =>
        Concat(fout.texts) = HundredthsText(RoundedHundredths(fin.pitch_class))


--------------------------------------------------------------------------
(* SpecHighlight: Grid::update_and_get_highlighted_pitch_classes            *)
(* (grid.rs:130-175) called draw tick by draw tick.  Durations are whole    *)
(* numbers of a time unit; each tick brings the snapshot's voices, the      *)
(* highlight_time parameter as it is then (lib.rs:125-133: from 0.0 up)     *)
(* and the time since the last tick.                                        *)

\* the largest highlight duration and the longest time between two ticks
MaxHighlight == 3
MaxTick == 2

\* a voice on channel 0, one on channel 1, and two on channel 15, one of
\* them with the pitch class of the voice on channel 0
HighlightVoices ==
    << Voice(0, 0), Voice(15, 0), Voice(1, 386313714), Voice(15, 700000000) >>

\* get_sorted_voices: the voices of a snapshot, sorted by pitch class
HighlightSnapshots ==
    { SelectSeqIn(HighlightVoices, held) :
        held \in SUBSET { HighlightVoices[i] : i \in DOMAIN HighlightVoices } }

\* "Tick timer on all pitch classes"
TickTimers(recent, time_since_last_draw, highlight_duration) ==
    [pc \in DOMAIN recent |->
        IF time_since_last_draw > recent[pc] THEN 0
        ELSE Min(highlight_duration, recent[pc] - time_since_last_draw)]

\* the pitch classes of the voices on a channel other than 15
SoundingPitchClasses(sorted_voices) ==
    { sorted_voices[i].pitch_class :
        i \in { k \in DOMAIN sorted_voices : sorted_voices[k].channel # 15 } }

\* "Refresh currently playing pitch classes"
RefreshPlaying(recent, sorted_voices, highlight_duration) ==
    [pc \in DOMAIN recent \cup SoundingPitchClasses(sorted_voices) |->
        IF pc \in SoundingPitchClasses(sorted_voices)
            THEN highlight_duration ELSE recent[pc]]

\* "Drop expired pitch classes": retain(|_, v| *v > Duration::ZERO)
DropExpired(recent) ==
    [pc \in { k \in DOMAIN recent : recent[k] > 0 } |-> recent[pc]]

\* the map after the call
update_highlighted(recent, sorted_voices, highlight_duration, time_since_last_draw) ==
    DropExpired(
        RefreshPlaying(
            TickTimers(recent, time_since_last_draw, highlight_duration),
            sorted_voices, highlight_duration))

notHighlight == <<progVars, bufVars, consVars, chanHist, batchHist,
                  bracketHist, arithVars, fnVars, learnVars>>

\* one draw tick: update_and_get_highlighted_pitch_classes(&sorted_voices,
\* highlight_duration), time_since_last_draw after the tick before
DrawTick ==
    \E sorted_voices \in HighlightSnapshots,
       highlight_duration \in 0 .. MaxHighlight,
       time_since_last_draw \in 0 .. MaxTick :
        LET after == update_highlighted(recent_pitch_classes, sorted_voices,
                         highlight_duration, time_since_last_draw)
            sounding == SoundingPitchClasses(sorted_voices)
        IN  /\ recent_pitch_classes' = after
            /\ drawHist' =
                   [ticked |-> TRUE,
                    voices |-> sorted_voices,
                    highlight_duration |-> highlight_duration,
                    result |-> SortedSeqOf(DOMAIN after),
                    prev_result |-> drawHist.result,
                    since |->
                        [pc \in HighlightPitchClasses |->
                            IF pc \in sounding THEN Some(0)
                            ELSE IF drawHist.since[pc] = None THEN None
                            ELSE Some(Min(MaxHighlight,
                                          drawHist.since[pc][1]
                                              + time_since_last_draw))],
                    set_at |->
                        [pc \in HighlightPitchClasses |->
                            IF pc \in sounding THEN Some(highlight_duration)
                            ELSE drawHist.set_at[pc]]]
            /\ UNCHANGED notHighlight

NextHighlight == DrawTick

SpecHighlight == Init /\ [][NextHighlight]_vars

\* the elements of a sequence
Range(s) == { s[i] : i \in DOMAIN s }

\* C30, first part: the pitch class of every voice of the current snapshot
\* on a channel other than 15 is in the returned list.
SoundingAreHighlighted ==
    SoundingPitchClasses(drawHist.voices) \subseteq Range(drawHist.result)

\* C30, second part: a pitch class that sounded and does not sound now is
\* returned exactly while it has been returned so far and the tick time
\* accumulated since it last sounded is below the highlight duration (the
\* current one where that is the smaller).
ReleasedAreKeptForDuration ==
    \A pc \in HighlightPitchClasses \ SoundingPitchClasses(drawHist.voices) :
        drawHist.since[pc] # None =>
            (pc \in Range(drawHist.result)
                <=> /\ pc \in Range(drawHist.prev_result)
                    /\ drawHist.since[pc][1]
                           < Min(drawHist.set_at[pc][1],
                                 drawHist.highlight_duration))

\* C30, third part: a pitch class that sounded on channel 15 alone is never
\* returned.
Channel15AloneNeverHighlighted ==
    \A pc \in HighlightPitchClasses :
        drawHist.since[pc] = None => pc \notin Range(drawHist.result)

\* C30: across successive draw ticks, the pitch class of every voice of the
\* current snapshot on a channel other than 15 is in the returned list; after
\* release it keeps being returned until the tick time accumulated since it
\* last sounded reaches the highlight duration (the current one, if it was
\* reduced meanwhile) and is then dropped until it sounds again; a pitch
\* class sounded only on channel 15 is never returned.
C30_HighlightFollowsSoundingAndDuration ==
    drawHist.ticked =>
        /\ SoundingAreHighlighted
        /\ ReleasedAreKeptForDuration
        /\ Channel15AloneNeverHighlighted

==========================================================================
